---- MODULE Spec2Model ----
(***************************************************************************)
(* Content-analysis and text-overlay engine of the social media agent:     *)
(* the preset style table, the rule-based classifier, the placement and    *)
(* style synthesizer, the platform content analyzer and the post           *)
(* synthesizer.                                                            *)
(*                                                                         *)
(* Numbers that the program holds as JavaScript doubles (font sizes after  *)
(* the 1.2 / 0.8 scaling, trending scores after the divisions) are held    *)
(* here as exact fractions [num, den] in lowest terms.                     *)
(***************************************************************************)
EXTENDS Integers, Sequences, FiniteSets, TLC

VARIABLES presets, op, args, ret, calls

vars == <<presets, op, args, ret, calls>>

(***************************************************************************)
(* Bounds of the exploration.                                              *)
(***************************************************************************)
\* number of top-level calls made in one process
MaxCalls == 2

(***************************************************************************)
(* Optional values (a field that may be undefined) and exact fractions.    *)
(***************************************************************************)
None == <<>>

Some(x) == <<x>>

IsSome(o) == Len(o) > 0

Get(o) == o[1]

\* const x = v; F(x): v is evaluated once and F applied to its value
Bind(v, F(_)) == CHOOSE y \in {F(x) : x \in {v}} : TRUE

RECURSIVE GCD(_, _)
GCD(a, b) == IF b = 0 THEN a ELSE GCD(b, a % b)

Rat(n, d) == LET g == GCD(n, d) IN [num |-> n \div g, den |-> d \div g]

RatInt(n) == [num |-> n, den |-> 1]

RatMulDiv(r, a, b) == Rat(r.num * a, r.den * b)

RatAdd(r, s) == Rat(r.num * s.den + s.num * r.den, r.den * s.den)

RatLe(r, s) == r.num * s.den <= s.num * r.den

RatMin(r, s) == IF RatLe(r, s) THEN r ELSE s

RatMax(r, s) == IF RatLe(r, s) THEN s ELSE r

RatIsInteger(r) == r.num % r.den = 0

(***************************************************************************)
(* text-overlay-types.ts: the preset style table.  The table is one module *)
(* level object; generateOptimalStyle hands out its entries by reference.  *)
(***************************************************************************)
PresetNames == {"title", "subtitle", "body", "caption", "watermark", "callout"}

Stroke(c, w) == Some([color |-> c, width |-> w])

PRESET_TEXT_STYLES ==
  [title |->
     [fontFamily |-> "Arial", fontSize |-> RatInt(48), color |-> "#ffffff",
      fontWeight |-> "bold", stroke |-> Stroke("#000000", 3),
      shadow |-> Some([color |-> "#000000", blur |-> 4, offsetX |-> 2, offsetY |-> 2]),
      opacity |-> None, backgroundColor |-> None],
   subtitle |->
     [fontFamily |-> "Arial", fontSize |-> RatInt(32), color |-> "#ffffff",
      fontWeight |-> "600", stroke |-> Stroke("#000000", 2),
      shadow |-> None, opacity |-> None, backgroundColor |-> None],
   body |->
     [fontFamily |-> "Arial", fontSize |-> RatInt(24), color |-> "#ffffff",
      fontWeight |-> "normal", stroke |-> None,
      shadow |-> None, opacity |-> None, backgroundColor |-> None],
   caption |->
     [fontFamily |-> "Arial", fontSize |-> RatInt(18), color |-> "#cccccc",
      fontWeight |-> "normal", stroke |-> None,
      shadow |-> None, opacity |-> None, backgroundColor |-> None],
   watermark |->
     [fontFamily |-> "Arial", fontSize |-> RatInt(20), color |-> "#ffffff",
      fontWeight |-> "normal", stroke |-> None,
      shadow |-> None, opacity |-> Some(Rat(1, 2)), backgroundColor |-> None],
   callout |->
     [fontFamily |-> "Arial", fontSize |-> RatInt(28), color |-> "#ff0000",
      fontWeight |-> "bold", stroke |-> Stroke("#000000", 1),
      shadow |-> None, opacity |-> None, backgroundColor |-> Some("#ffff00")]]

(***************************************************************************)
(* ai-text-overlay-generator.ts: value domains of the analysis and of the  *)
(* media context.                                                          *)
(***************************************************************************)
ContentTypes ==
  {"title", "subtitle", "caption", "watermark", "callout",
   "quote", "statistic", "instruction", "disclaimer", "credit"}

TextLengths == {"short", "medium", "long"}

Tones == {"formal", "casual", "urgent", "playful", "professional"}

Importances == {"low", "medium", "high", "critical"}

Audiences == {"general", "professional", "youth", "elderly"}

Brightnesses == {"dark", "medium", "bright"}

AspectRatios == {"square", "portrait", "landscape", "ultrawide"}

(***************************************************************************)
(* generateOptimalStyle: picks the preset entry for the content type and   *)
(* then assigns to its fields.  baseStyle is the table entry itself, so    *)
(* every assignment lands in the table.  The result names the entry that   *)
(* was returned (ref) and its value at the time of return (style).         *)
(***************************************************************************)
PresetFor(contentType) ==
  CASE contentType = "title" -> "title"
    [] contentType = "subtitle" -> "subtitle"
    [] contentType = "watermark" -> "watermark"
    [] contentType = "callout" -> "callout"
    [] OTHER -> "body"

\* ScaleFontSize with the lower clamp of the long branch lost
ScaleFontSizeNoFloor(textLength, fontSize) ==
  IF textLength = "short" THEN RatMin(RatMulDiv(fontSize, 6, 5), RatInt(72))
  ELSE IF textLength = "long" THEN RatMulDiv(fontSize, 4, 5)
  ELSE fontSize

ScaleFontSize(textLength, fontSize) ==
  IF textLength = "short" THEN RatMin(RatMulDiv(fontSize, 6, 5), RatInt(72))
  ELSE IF textLength = "long" THEN RatMax(RatMulDiv(fontSize, 4, 5), RatInt(16))
  ELSE fontSize

AdjustForBrightness(s, brightness) ==
  IF brightness = "dark" THEN [s EXCEPT !.color = "#ffffff"]
  ELSE IF brightness = "bright" THEN [s EXCEPT !.color = "#000000"]
  ELSE s

AdjustForImportance(s, importance) ==
  IF importance = "critical"
    THEN [s EXCEPT !.fontWeight = "bold", !.color = "#ff0000",
                   !.stroke = Stroke("#ffffff", 3)]
  ELSE IF importance = "high"
    THEN [s EXCEPT !.fontWeight = "bold", !.stroke = Stroke("#000000", 2)]
  ELSE s

AdjustForTone(s, tone) ==
  IF tone = "playful"
    THEN [s EXCEPT !.fontFamily = "Comic Sans MS", !.color = "#ff6b6b"]
  ELSE IF tone = "professional"
    THEN [s EXCEPT !.fontFamily = "Arial", !.fontWeight = "600"]
  ELSE s

AdjustForAudience(s, audience) ==
  IF audience = "elderly"
    THEN [s EXCEPT !.fontSize = RatMax(s.fontSize, RatInt(32)),
                   !.fontWeight = "bold"]
  ELSE IF audience = "youth"
    THEN [s EXCEPT !.fontFamily = "Arial", !.color = "#4ecdc4"]
  ELSE s

\* generateOptimalStyle with the tone adjustment applied after the audience
\* adjustment
generateOptimalStyleToneLast(ps, contentAnalysis, mediaContext) ==
  LET p  == PresetFor(contentAnalysis.contentType)
      s0 == ps[p]
      s1 == [s0 EXCEPT !.fontSize = ScaleFontSize(contentAnalysis.textLength, s0.fontSize)]
      s2 == AdjustForBrightness(s1, mediaContext.brightness)
      s3 == AdjustForImportance(s2, contentAnalysis.importance)
      s4 == AdjustForAudience(s3, contentAnalysis.audience)
      s5 == AdjustForTone(s4, contentAnalysis.tone)
  IN  [presets |-> [ps EXCEPT ![p] = s5], ref |-> p, style |-> s5]

generateOptimalStyle(ps, contentAnalysis, mediaContext) ==
  LET p  == PresetFor(contentAnalysis.contentType)
      s0 == ps[p]
      s1 == [s0 EXCEPT !.fontSize = ScaleFontSize(contentAnalysis.textLength, s0.fontSize)]
      s2 == AdjustForBrightness(s1, mediaContext.brightness)
      s3 == AdjustForImportance(s2, contentAnalysis.importance)
      s4 == AdjustForTone(s3, contentAnalysis.tone)
      s5 == AdjustForAudience(s4, contentAnalysis.audience)
  IN  [presets |-> [ps EXCEPT ![p] = s5], ref |-> p, style |-> s5]

(***************************************************************************)
(* Texts.  A text is a sequence of words joined by single spaces; a word   *)
(* carries what the classifier's string tests see of it: its length in     *)
(* UTF-16 code units, whether its first character is in A-Z, and which of  *)
(* the searched substrings (lower-cased keywords, punctuation marks, the   *)
(* statistic pattern) occur in it.  No searched substring spans a word     *)
(* boundary of the vocabulary below.                                       *)
(***************************************************************************)
Word(w, n, c, k) == [w |-> w, len |-> n, cap |-> c, kw |-> k]

Vocabulary ==
  {Word("Hello", 5, TRUE, {}),
   Word("world", 5, FALSE, {}),
   Word("Copyright", 9, TRUE, {"copyright"}),
   Word("credit", 6, FALSE, {"credit"}),
   Word("important", 9, FALSE, {"important"}),
   Word("Wow!", 4, TRUE, {"!", "wow"}),
   Word("said", 4, FALSE, {"said"}),
   Word("50%", 3, FALSE, {"<statistic>"}),
   Word("click here", 10, FALSE, {"click"}),
   Word("terms", 5, FALSE, {"terms"}),
   Word("The quick brown fox jumps over the lazy dog today", 49, TRUE, {}),
   Word("done.", 5, FALSE, {"."}),
   Word("URGENT", 6, TRUE, {"urgent"}),
   Word("photo by", 8, FALSE, {"photo by"})}

\* longest text of the classifier's exploration, in words
MaxWords == 3

Texts == UNION {[1..n -> Vocabulary] : n \in 0..MaxWords}

RECURSIVE SumLen(_, _)
SumLen(text, i) == IF i > Len(text) THEN 0 ELSE text[i].len + SumLen(text, i + 1)

\* text.length
TextLength(text) == IF Len(text) = 0 THEN 0 ELSE SumLen(text, 1) + (Len(text) - 1)

\* lowerText.includes(k) / text.includes(k)
Includes(text, k) == \E i \in 1..Len(text) : k \in text[i].kw

IncludesAny(text, ks) == \E k \in ks : Includes(text, k)

\* /^[A-Z][^.!?]*$/.test(text)
SingleSentence(text) ==
  /\ Len(text) > 0
  /\ text[1].cap
  /\ ~IncludesAny(text, {".", "!", "?"})

(***************************************************************************)
(* The classifier: determineContentType, analyzeTone, determineImportance  *)
(* and analyzeTextContent.                                                 *)
(***************************************************************************)
determineContentType(text) ==
  IF TextLength(text) < 50 /\ SingleSentence(text) THEN "title"
  ELSE IF TextLength(text) < 100 /\ SingleSentence(text) THEN "subtitle"
  ELSE IF IncludesAny(text, {"<copyright-sign>", "copyright", "watermark"}) THEN "watermark"
  ELSE IF IncludesAny(text, {"!", "urgent", "important"}) THEN "callout"
  ELSE IF IncludesAny(text, {"\"", "said", "quote"}) THEN "quote"
  ELSE IF Includes(text, "<statistic>") THEN "statistic"
  ELSE IF IncludesAny(text, {"click", "tap", "press", "enter"}) THEN "instruction"
  ELSE IF IncludesAny(text, {"disclaimer", "terms", "conditions"}) THEN "disclaimer"
  ELSE IF IncludesAny(text, {"photo by", "credit", "courtesy"}) THEN "credit"
  ELSE "caption"

analyzeTone(text) ==
  IF IncludesAny(text, {"urgent", "emergency", "alert"}) THEN "urgent"
  ELSE IF IncludesAny(text, {"fun", "awesome", "amazing", "wow"}) THEN "playful"
  ELSE IF IncludesAny(text, {"professional", "business", "corporate"}) THEN "professional"
  ELSE IF IncludesAny(text, {"hey", "cool", "nice"}) THEN "casual"
  ELSE "formal"

determineImportance(text, contentType) ==
  IF IncludesAny(text, {"urgent", "emergency", "critical"}) THEN "critical"
  ELSE IF IncludesAny(text, {"important", "warning", "alert"}) THEN "high"
  ELSE IF contentType \in {"title", "callout"} THEN "high"
  ELSE IF contentType \in {"watermark", "disclaimer"} THEN "low"
  ELSE "medium"

textLengthOf(text) ==
  IF TextLength(text) < 20 THEN "short"
  ELSE IF TextLength(text) < 100 THEN "medium"
  ELSE "long"

analyzeTextContent(text) ==
  LET contentType == determineContentType(text)
  IN  [contentType |-> contentType,
       textLength  |-> textLengthOf(text),
       tone        |-> analyzeTone(text),
       importance  |-> determineImportance(text, contentType),
       audience    |-> "general",
       context     |-> "image",
       colorScheme |-> "light"]

(***************************************************************************)
(* Placements (text-overlay-types.ts) and generateOptimalPlacement.        *)
(***************************************************************************)
TextPlacement(position, offset, startTime, endTime) ==
  [x |-> None, y |-> None, position |-> position, gravity |-> None,
   offset |-> offset, startTime |-> startTime, endTime |-> endTime]

createPlacementFromPosition(position) ==
  TextPlacement(Some(position), None, None, None)

createTimedPlacement(position, startTime, endTime) ==
  TextPlacement(Some(position), None, Some(startTime), Some(endTime))

\* dimensions.width / dimensions.height against 2, 1.2 and 0.8
analyzeMediaContext(dimensions, type, duration) ==
  [type |-> type,
   aspectRatio |->
     IF dimensions.width > 2 * dimensions.height THEN "ultrawide"
     ELSE IF 5 * dimensions.width > 6 * dimensions.height THEN "landscape"
     ELSE IF 5 * dimensions.width < 4 * dimensions.height THEN "portrait"
     ELSE "square",
   brightness |-> "medium",
   duration |-> duration]

\* BasePosition without the portrait case of a subtitle
BasePositionSubtitleTop(contentType, aspectRatio) ==
  CASE contentType = "title" -> "top-center"
    [] contentType = "subtitle" -> "top-center"
    [] contentType = "caption" -> "bottom-center"
    [] contentType = "watermark" -> "bottom-right"
    [] contentType \in {"callout", "quote", "statistic"} -> "center"
    [] contentType = "instruction" -> "bottom-center"
    [] contentType = "disclaimer" -> "bottom-left"
    [] contentType = "credit" -> "bottom-right"
    [] OTHER -> "bottom-center"

BasePosition(contentType, aspectRatio) ==
  CASE contentType = "title" -> "top-center"
    [] contentType = "subtitle" ->
         IF aspectRatio = "portrait" THEN "center" ELSE "top-center"
    [] contentType = "caption" -> "bottom-center"
    [] contentType = "watermark" -> "bottom-right"
    [] contentType = "callout" -> "center"
    [] contentType = "quote" -> "center"
    [] contentType = "statistic" -> "center"
    [] contentType = "instruction" -> "bottom-center"
    [] contentType = "disclaimer" -> "bottom-left"
    [] contentType = "credit" -> "bottom-right"
    [] OTHER -> "bottom-center"

\* generateOptimalPlacement with the ultrawide adjustment made last for
\* every position, the critical one included
generateOptimalPlacementUltrawideLast(contentAnalysis, mediaContext) ==
  LET b0 == BasePosition(contentAnalysis.contentType, mediaContext.aspectRatio)
      b1 == IF contentAnalysis.importance = "critical" THEN "center" ELSE b0
      b2 == IF mediaContext.aspectRatio = "ultrawide" /\ b1 \in {"top-center", "center"}
              THEN "top-left" ELSE b1
  IN  IF /\ mediaContext.type = "video"
         /\ IsSome(mediaContext.duration)
         /\ Get(mediaContext.duration) # 0
        THEN createTimedPlacement(b2, 0,
               IF Get(mediaContext.duration) < 5 THEN Get(mediaContext.duration) ELSE 5)
        ELSE createPlacementFromPosition(b2)

\* generateOptimalPlacement with the timing window given to every media type
\* that carries a duration
generateOptimalPlacementAnyType(contentAnalysis, mediaContext) ==
  LET b0 == BasePosition(contentAnalysis.contentType, mediaContext.aspectRatio)
      b1 == IF contentAnalysis.importance = "critical" THEN "center" ELSE b0
      b2 == IF mediaContext.aspectRatio = "ultrawide" /\ b1 = "top-center"
              THEN "top-left" ELSE b1
  IN  IF /\ IsSome(mediaContext.duration)
         /\ Get(mediaContext.duration) # 0
        THEN createTimedPlacement(b2, 0,
               IF Get(mediaContext.duration) < 5 THEN Get(mediaContext.duration) ELSE 5)
        ELSE createPlacementFromPosition(b2)

\* generateOptimalPlacement with a timing window for every video that has a
\* duration, duration 0 included
generateOptimalPlacementZeroWindow(contentAnalysis, mediaContext) ==
  LET b0 == BasePosition(contentAnalysis.contentType, mediaContext.aspectRatio)
      b1 == IF contentAnalysis.importance = "critical" THEN "center" ELSE b0
      b2 == IF mediaContext.aspectRatio = "ultrawide" /\ b1 = "top-center"
              THEN "top-left" ELSE b1
  IN  IF /\ mediaContext.type = "video"
         /\ IsSome(mediaContext.duration)
        THEN createTimedPlacement(b2, 0,
               IF Get(mediaContext.duration) < 5 THEN Get(mediaContext.duration) ELSE 5)
        ELSE createPlacementFromPosition(b2)

generateOptimalPlacement(contentAnalysis, mediaContext) ==
  LET b0 == BasePosition(contentAnalysis.contentType, mediaContext.aspectRatio)
      b1 == IF contentAnalysis.importance = "critical" THEN "center" ELSE b0
      b2 == IF mediaContext.aspectRatio = "ultrawide" /\ b1 = "top-center"
              THEN "top-left" ELSE b1
  IN  IF /\ mediaContext.type = "video"
         /\ IsSome(mediaContext.duration)
         /\ Get(mediaContext.duration) # 0
        THEN createTimedPlacement(b2, 0,
               IF Get(mediaContext.duration) < 5 THEN Get(mediaContext.duration) ELSE 5)
        ELSE createPlacementFromPosition(b2)

(***************************************************************************)
(* generateTextOverlay.  customOptions is a record holding the keys the    *)
(* caller wrote (a key may be written with the value "undefined");         *)
(* Object.assign copies every key that is present.  The style returned by  *)
(* generateOptimalStyle is the table entry, so the brand assignments land  *)
(* in the table too.                                                       *)
(***************************************************************************)
NoOptions == [k \in {} |-> "undefined"]

ObjectAssign(target, source) ==
  [k \in (DOMAIN target) \cup (DOMAIN source) |->
     IF k \in DOMAIN source THEN source[k] ELSE target[k]]

BrandOf(customOptions) ==
  IF "brandGuidelines" \in DOMAIN customOptions
    THEN customOptions.brandGuidelines ELSE None

ApplyBrand(s, brand) ==
  IF ~IsSome(brand) THEN s
  ELSE LET c == IF IsSome(Get(brand).primaryColor)
                  THEN [s EXCEPT !.color = Get(Get(brand).primaryColor)] ELSE s
       IN  IF IsSome(Get(brand).fontFamily)
             THEN [c EXCEPT !.fontFamily = Get(Get(brand).fontFamily)] ELSE c

generateTextOverlay(ps, text, mediaContext, customOptions) ==
  LET contentAnalysis == ObjectAssign(analyzeTextContent(text), customOptions)
      placement == generateOptimalPlacement(contentAnalysis, mediaContext)
      g == generateOptimalStyle(ps, contentAnalysis, mediaContext)
      style == ApplyBrand(g.style, BrandOf(customOptions))
  IN  [presets |-> [g.presets EXCEPT ![g.ref] = style],
       overlay |-> [text |-> text, placement |-> placement, style |-> style,
                    ref |-> g.ref, analysis |-> contentAnalysis]]

(***************************************************************************)
(* The overlay generator as a state machine.  The state is the preset      *)
(* table of the loaded module; op, args and ret record the last call and   *)
(* what it returned.                                                       *)
(***************************************************************************)
\* The inputs of the explored calls.  Content types: one per preset entry
\* that generateOptimalStyle can select (caption stands for the default
\* branch).  Profiles: (tone, importance, audience, brightness) combinations
\* that take every branch of the four adjustments at least once.
StyleContentTypes == {"title", "subtitle", "watermark", "callout", "caption"}

StyleProfiles ==
  {<<"formal", "medium", "general", "medium">>,
   <<"formal", "medium", "general", "dark">>,
   <<"formal", "medium", "general", "bright">>,
   <<"casual", "high", "general", "medium">>,
   <<"urgent", "critical", "general", "dark">>,
   <<"playful", "critical", "professional", "medium">>,
   <<"professional", "low", "general", "medium">>,
   <<"formal", "medium", "elderly", "medium">>,
   <<"playful", "medium", "youth", "bright">>}

\* The text lengths explored with a profile.  Only the scaling and the
\* elderly adjustment read or write the font size: every length goes with
\* the plain and the elderly profile, "medium" (no scaling) with the others.
StyleLengths(profile) ==
  IF profile \in {<<"formal", "medium", "general", "medium">>,
                  <<"formal", "medium", "elderly", "medium">>}
    THEN TextLengths
    ELSE {"medium"}

StyleAnalysis(contentType, textLength, profile) ==
  [contentType |-> contentType, textLength |-> textLength, tone |-> profile[1],
   importance |-> profile[2], audience |-> profile[3],
   context |-> "image", colorScheme |-> "light"]

StyleMediaContext(profile) ==
  [type |-> "image", aspectRatio |-> "landscape", brightness |-> profile[4],
   duration |-> None]

\* the text of the guide's Quick Start
HelloWorld == <<Word("Hello", 5, TRUE, {}), Word("World", 5, TRUE, {})>>

OverlayTexts ==
  {HelloWorld,
   <<Word("URGENT", 6, TRUE, {"urgent"}), Word("Wow!", 4, TRUE, {"!", "wow"})>>,
   <<Word("credit", 6, FALSE, {"credit"}),
     Word("The quick brown fox jumps over the lazy dog today", 49, TRUE, {}),
     Word("The quick brown fox jumps over the lazy dog today", 49, TRUE, {})>>}

OverlayMediaContexts ==
  {[type |-> "image", aspectRatio |-> "landscape", brightness |-> "medium", duration |-> None],
   [type |-> "video", aspectRatio |-> "portrait", brightness |-> "dark", duration |-> Some(30)],
   [type |-> "video", aspectRatio |-> "ultrawide", brightness |-> "bright", duration |-> Some(3)],
   [type |-> "video", aspectRatio |-> "square", brightness |-> "medium", duration |-> Some(0)]}

OverlayOptions ==
  {NoOptions,
   [contentType |-> "title", importance |-> "high"],
   [tone |-> "playful",
    brandGuidelines |-> Some([primaryColor |-> Some("#123456"), fontFamily |-> Some("Georgia")])],
   [contentType |-> "subtitle",
    brandGuidelines |-> Some([primaryColor |-> None, fontFamily |-> Some("Georgia")])]}

\* the nine preset positions of the TextPosition type
TextPositions ==
  {"top-left", "top-center", "top-right", "center-left", "center", "center-right",
   "bottom-left", "bottom-center", "bottom-right"}

Init ==
  /\ presets = PRESET_TEXT_STYLES
  /\ op = "init"
  /\ args = <<>>
  /\ ret = <<>>
  /\ calls = 0

GenerateOptimalStyle ==
  /\ calls < MaxCalls
  /\ \E contentType \in StyleContentTypes, profile \in StyleProfiles :
     \E textLength \in StyleLengths(profile) :
       LET contentAnalysis == StyleAnalysis(contentType, textLength, profile)
           mediaContext == StyleMediaContext(profile)
           g == generateOptimalStyle(presets, contentAnalysis, mediaContext)
       IN  /\ presets' = g.presets
           /\ op' = "generateOptimalStyle"
           /\ args' = [contentAnalysis |-> contentAnalysis, mediaContext |-> mediaContext]
           /\ ret' = [ref |-> g.ref, style |-> g.style]
           /\ calls' = calls + 1

GenerateTextOverlay ==
  /\ calls < MaxCalls
  /\ \E text \in OverlayTexts, mediaContext \in OverlayMediaContexts,
        customOptions \in OverlayOptions :
       LET g == generateTextOverlay(presets, text, mediaContext, customOptions)
       IN  /\ presets' = g.presets
           /\ op' = "generateTextOverlay"
           /\ args' = [text |-> text, mediaContext |-> mediaContext,
                       customOptions |-> customOptions]
           /\ ret' = g.overlay
           /\ calls' = calls + 1

CreatePlacementFromPosition ==
  /\ calls < MaxCalls
  /\ \E position \in TextPositions :
       /\ op' = "createPlacementFromPosition"
       /\ args' = [position |-> position]
       /\ ret' = createPlacementFromPosition(position)
       /\ calls' = calls + 1
  /\ UNCHANGED presets

Next ==
  \/ GenerateOptimalStyle
  \/ GenerateTextOverlay
  \/ CreatePlacementFromPosition

Spec == Init /\ [][Next]_vars

(***************************************************************************)
(* The classifier as a specification of its own: the initial state holds   *)
(* the text to classify, the actions apply the classifier to it.           *)
(***************************************************************************)
InitClassify ==
  /\ presets = PRESET_TEXT_STYLES
  /\ op = "init"
  /\ args \in {[text |-> t] : t \in Texts}
  /\ ret = <<>>
  /\ calls = 0

DetermineContentType ==
  /\ op = "init"
  /\ op' = "determineContentType"
  /\ ret' = determineContentType(args.text)
  /\ calls' = calls + 1
  /\ UNCHANGED <<presets, args>>

AnalyzeTextContent ==
  /\ op = "init"
  /\ op' = "analyzeTextContent"
  /\ ret' = analyzeTextContent(args.text)
  /\ calls' = calls + 1
  /\ UNCHANGED <<presets, args>>

NextClassify ==
  \/ DetermineContentType
  \/ AnalyzeTextContent

SpecClassify == InitClassify /\ [][NextClassify]_vars

(***************************************************************************)
(* Social media agent: analyzeContent and its tables.                      *)
(***************************************************************************)
Lookup(table, key, default) == IF key \in DOMAIN table THEN table[key] ELSE default

analyzeVideoCategory(category) ==
  Lookup([c \in {"subway-surfers", "minecraft", "brainrot", "gaming", "entertainment"} |->
            CASE c = "subway-surfers" -> "gaming-entertainment"
              [] c = "minecraft" -> "gaming-educational"
              [] c = "brainrot" -> "viral-entertainment"
              [] c = "gaming" -> "gaming-content"
              [] c = "entertainment" -> "viral-entertainment"],
         category, "general-entertainment")

getVideoTargetAudience(category) ==
  Lookup([c \in {"subway-surfers", "minecraft", "brainrot", "gaming", "entertainment"} |->
            CASE c = "subway-surfers" -> <<"gen-z", "mobile-gamers", "casual-gamers">>
              [] c = "minecraft" -> <<"gen-z", "millennials", "gaming-community", "educational">>
              [] c = "brainrot" -> <<"gen-z", "viral-content", "entertainment">>
              [] c = "gaming" -> <<"gamers", "gen-z", "millennials">>
              [] c = "entertainment" -> <<"general", "entertainment", "viral-content">>],
         category, <<"general">>)

getVideoBestPlatforms(category) ==
  Lookup([c \in {"subway-surfers", "minecraft", "brainrot", "gaming", "entertainment"} |->
            CASE c = "subway-surfers" -> <<"tiktok", "instagram", "youtube">>
              [] c = "minecraft" -> <<"youtube", "tiktok", "instagram">>
              [] c = "brainrot" -> <<"tiktok", "instagram", "twitter">>
              [] c = "gaming" -> <<"youtube", "tiktok", "instagram">>
              [] c = "entertainment" -> <<"tiktok", "instagram", "youtube">>],
         category, <<"tiktok", "instagram">>)

\* Boost with the cap of the engagement term lost
BoostUncapped(score, counter, divisor, cap) ==
  RatAdd(score, Rat(counter, divisor))

\* score += Math.min(counter / divisor, cap)
Boost(score, counter, divisor, cap) ==
  RatAdd(score, RatMin(Rat(counter, divisor), RatInt(cap)))

\* calculateVideoTrendingScore with the final Math.min(score, 100) lost
calculateVideoTrendingScoreUnclamped(content) ==
  LET s0 == RatInt(50 + (CASE content.category = "subway-surfers" -> 30
                           [] content.category = "minecraft" -> 25
                           [] content.category = "brainrot" -> 35
                           [] OTHER -> 0))
  IN  IF IsSome(content.engagement)
        THEN RatAdd(RatAdd(s0, RatMin(Rat(Get(content.engagement).views, 1000), RatInt(20))),
                    RatMin(Rat(Get(content.engagement).likes, 100), RatInt(15)))
        ELSE s0

calculateVideoTrendingScore(content) ==
  LET s0 == RatInt(50 + (CASE content.category = "subway-surfers" -> 30
                           [] content.category = "minecraft" -> 25
                           [] content.category = "brainrot" -> 35
                           [] OTHER -> 0))
      s1 == IF IsSome(content.engagement)
              THEN Boost(Boost(s0, Get(content.engagement).views, 1000, 20),
                         Get(content.engagement).likes, 100, 15)
              ELSE s0
  IN  RatMin(s1, RatInt(100))

calculateMemeTrendingScore(content) ==
  LET s0 == RatInt(60)
      s1 == IF IsSome(content.engagement)
              THEN Boost(Boost(s0, Get(content.engagement).shares, 50, 25),
                         Get(content.engagement).comments, 20, 15)
              ELSE s0
  IN  RatMin(s1, RatInt(100))

calculateGraphicTrendingScore(content) ==
  LET s0 == RatInt(40)
      s1 == IF IsSome(content.engagement)
              THEN Boost(Boost(s0, Get(content.engagement).likes, 100, 20),
                         Get(content.engagement).shares, 30, 20)
              ELSE s0
  IN  RatMin(s1, RatInt(100))

\* the tags of a list without those already in seen
RECURSIVE Fresh(_, _)
Fresh(tags, seen) ==
  IF tags = <<>> THEN <<>>
  ELSE IF tags[1] \in seen THEN Fresh(Tail(tags), seen)
  ELSE <<tags[1]>> \o Fresh(Tail(tags), seen \cup {tags[1]})

\* generateVideoHashtags with duplicates removed
generateVideoHashtagsDeduplicated(category) ==
  Fresh(<<"viral", "trending", "fyp", "foryou">> \o
        Lookup([c \in {"subway-surfers", "minecraft", "brainrot", "gaming", "entertainment"} |->
                  CASE c = "subway-surfers" -> <<"subwaysurfers", "gaming", "mobilegame", "speedrun", "gamingviral">>
                    [] c = "minecraft" -> <<"minecraft", "gaming", "minecraftbuilds", "gamingcommunity", "minecraftviral">>
                    [] c = "brainrot" -> <<"brainrot", "viral", "funny", "entertainment", "trending">>
                    [] c = "gaming" -> <<"gaming", "gamer", "videogames", "gamingcommunity", "gamingviral">>
                    [] c = "entertainment" -> <<"entertainment", "funny", "viral", "trending", "fyp">>],
               category, <<"viral", "trending">>), {})

generateVideoHashtags(category) ==
  <<"viral", "trending", "fyp", "foryou">> \o
  Lookup([c \in {"subway-surfers", "minecraft", "brainrot", "gaming", "entertainment"} |->
            CASE c = "subway-surfers" -> <<"subwaysurfers", "gaming", "mobilegame", "speedrun", "gamingviral">>
              [] c = "minecraft" -> <<"minecraft", "gaming", "minecraftbuilds", "gamingcommunity", "minecraftviral">>
              [] c = "brainrot" -> <<"brainrot", "viral", "funny", "entertainment", "trending">>
              [] c = "gaming" -> <<"gaming", "gamer", "videogames", "gamingcommunity", "gamingviral">>
              [] c = "entertainment" -> <<"entertainment", "funny", "viral", "trending", "fyp">>],
         category, <<"viral", "trending">>)

generateMemeHashtags(category) ==
  <<"meme", "funny", "viral", "trending", "fyp">> \o
  Lookup([c \in {"dank-memes", "viral-meme", "classic-meme"} |->
            CASE c = "dank-memes" -> <<"dankmemes", "memes", "funny", "viral">>
              [] c = "viral-meme" -> <<"viral", "trending", "funny", "meme">>
              [] c = "classic-meme" -> <<"classic", "meme", "nostalgia", "funny">>],
         category, <<"meme", "funny">>)

generateGraphicHashtags(category) ==
  <<"design", "graphic", "creative", "art">> \o
  Lookup([c \in {"brand-graphic", "color-graphic", "minimal-graphic"} |->
            CASE c = "brand-graphic" -> <<"brand", "design", "marketing", "business">>
              [] c = "color-graphic" -> <<"color", "design", "creative", "art">>
              [] c = "minimal-graphic" -> <<"minimal", "design", "clean", "modern">>],
         category, <<"design", "creative">>)

analyzeContent(content) ==
  CASE content.type = "video" ->
         [category |-> analyzeVideoCategory(content.category),
          targetAudience |-> getVideoTargetAudience(content.category),
          bestPlatforms |-> getVideoBestPlatforms(content.category),
          trendingScore |-> calculateVideoTrendingScore(content),
          suggestedHashtags |-> generateVideoHashtags(content.category)]
    [] content.type = "meme" ->
         [category |-> "viral-meme",
          targetAudience |-> <<"gen-z", "millennials", "internet-culture">>,
          bestPlatforms |-> <<"instagram", "twitter", "tiktok">>,
          trendingScore |-> calculateMemeTrendingScore(content),
          suggestedHashtags |-> generateMemeHashtags(content.category)]
    [] content.type = "graphic" ->
         [category |-> "brand-graphic",
          targetAudience |-> <<"general", "business", "professional">>,
          bestPlatforms |-> <<"instagram", "facebook", "linkedin">>,
          trendingScore |-> calculateGraphicTrendingScore(content),
          suggestedHashtags |-> generateGraphicHashtags(content.category)]

(***************************************************************************)
(* The analyzer as a specification of its own: the initial state holds the *)
(* content item, the action applies analyzeContent to it.                  *)
(***************************************************************************)
MediaKinds == {"video", "meme", "graphic"}

Categories ==
  {"subway-surfers", "minecraft", "brainrot", "gaming", "entertainment",
   "dank-memes", "viral-meme", "classic-meme",
   "brand-graphic", "color-graphic", "minimal-graphic", "other"}

\* engagement counters: zero, values that the divisors 1000, 100, 50, 30 and
\* 20 do not divide, and the very large value of the spec's example
EngagementCounts == {0, 50, 1500, 10000000}

Engagements ==
  {None} \cup
  {Some(e) : e \in [likes : EngagementCounts, shares : EngagementCounts,
                    comments : EngagementCounts, views : EngagementCounts]}

Content(id, type, category, duration, width, height, engagement) ==
  [id |-> id, type |-> type, category |-> category, duration |-> duration,
   dimensions |-> [width |-> width, height |-> height], engagement |-> engagement]

AnalyzedContents ==
  {Content("content_1", t, c, IF t = "video" THEN Some(30) ELSE None, 1080, 1920, e) :
     t \in MediaKinds, c \in Categories, e \in Engagements}

InitAnalyze ==
  /\ presets = PRESET_TEXT_STYLES
  /\ op = "init"
  /\ args \in {[content |-> c] : c \in AnalyzedContents}
  /\ ret = <<>>
  /\ calls = 0

AnalyzeContent ==
  /\ op = "init"
  /\ op' = "analyzeContent"
  /\ ret' = analyzeContent(args.content)
  /\ calls' = calls + 1
  /\ UNCHANGED <<presets, args>>

NextAnalyze ==
  \/ AnalyzeContent

SpecAnalyze == InitAnalyze /\ [][NextAnalyze]_vars

(***************************************************************************)
(* Social media agent: template tables.  A template is a one-word text;    *)
(* its emoji are left out of the spelling but counted in its length.       *)
(***************************************************************************)
titleTemplates ==
  [c \in {"subway-surfers", "minecraft", "brainrot"} |->
     CASE c = "subway-surfers" ->
          <<<<Word("SUBWAY SURFERS SPEEDRUN!", 30, TRUE, {"!"})>>,
            <<Word("INSANE SUBWAY SURFERS SCORE!", 31, TRUE, {"!"})>>,
            <<Word("SUBWAY SURFERS WORLD RECORD!", 31, TRUE, {"!"})>>,
            <<Word("SUBWAY SURFERS FAIL COMPILATION!", 35, TRUE, {"!"})>>,
            <<Word("SUBWAY SURFERS PRO TIPS!", 27, TRUE, {"!"})>>>>
       [] c = "minecraft" ->
          <<<<Word("MINECRAFT BUILD TUTORIAL!", 29, TRUE, {"!"})>>,
            <<Word("MINECRAFT SURVIVAL MODE!", 27, TRUE, {"!"})>>,
            <<Word("MINECRAFT REDSTONE HACKS!", 28, TRUE, {"!"})>>,
            <<Word("MINECRAFT PVP BATTLE!", 24, TRUE, {"!"})>>,
            <<Word("MINECRAFT CREATIVE BUILD!", 28, TRUE, {"!"})>>>>
       [] c = "brainrot" ->
          <<<<Word("BRAINROT COMPILATION!", 24, TRUE, {"!"})>>,
            <<Word("VIRAL BRAINROT CONTENT!", 26, TRUE, {"!"})>>,
            <<Word("BRAINROT MOMENTS!", 20, TRUE, {"!"})>>,
            <<Word("BRAINROT TRENDING!", 21, TRUE, {"!"})>>,
            <<Word("BRAINROT GOLD!", 17, TRUE, {"!"})>>>>]

titleTemplatesDefault == <<<<Word("VIRAL CONTENT!", 17, TRUE, {"!"})>>>>

memeTemplates ==
  [c \in {"dank-memes", "viral-meme", "classic-meme"} |->
     CASE c = "dank-memes" ->
          <<<<Word("WHEN YOU FINALLY GET IT", 23, TRUE, {})>>,
            <<Word("ME VS THE GUY SHE TOLD ME NOT TO WORRY ABOUT", 44, TRUE, {})>>,
            <<Word("NOBODY: /ABSOLUTELY NOBODY: /ME:", 32, TRUE, {})>>,
            <<Word("POV: YOU JUST REALIZED", 22, TRUE, {})>>,
            <<Word("THAT MOMENT WHEN", 16, TRUE, {})>>>>
       [] c = "viral-meme" ->
          <<<<Word("VIRAL MOMENT!", 16, TRUE, {"!"})>>,
            <<Word("THIS IS GOLD!", 16, TRUE, {"!"})>>,
            <<Word("CAN'T STOP LAUGHING!", 23, TRUE, {"!"})>>,
            <<Word("RELATABLE CONTENT!", 21, TRUE, {"!"})>>,
            <<Word("MOOD!", 8, TRUE, {"!"})>>>>
       [] c = "classic-meme" ->
          <<<<Word("CLASSIC!", 11, TRUE, {"!"})>>,
            <<Word("NOSTALGIA HITS!", 18, TRUE, {"!"})>>,
            <<Word("GOOD OLD TIMES!", 17, TRUE, {"!"})>>,
            <<Word("THROWBACK!", 13, TRUE, {"!"})>>,
            <<Word("LEGENDARY!", 13, TRUE, {"!"})>>>>]

memeTemplatesDefault == <<<<Word("VIRAL MEME!", 14, TRUE, {"!"})>>>>

brandTemplates ==
  [c \in {"brand-graphic", "color-graphic", "minimal-graphic"} |->
     CASE c = "brand-graphic" ->
          <<<<Word("BRAND NEW!", 13, TRUE, {"!"})>>,
            <<Word("EXCLUSIVE OFFER!", 19, TRUE, {"!"})>>,
            <<Word("LIMITED TIME!", 15, TRUE, {"!"})>>,
            <<Word("SPECIAL DEAL!", 16, TRUE, {"!"})>>,
            <<Word("PREMIUM QUALITY!", 18, TRUE, {"!"})>>>>
       [] c = "color-graphic" ->
          <<<<Word("BOLD COLORS!", 15, TRUE, {"!"})>>,
            <<Word("VIBRANT DESIGN!", 18, TRUE, {"!"})>>,
            <<Word("COLOR POP!", 13, TRUE, {"!"})>>,
            <<Word("STUNNING VISUALS!", 20, TRUE, {"!"})>>,
            <<Word("ARTISTIC VIBES!", 18, TRUE, {"!"})>>>>
       [] c = "minimal-graphic" ->
          <<<<Word("CLEAN DESIGN!", 15, TRUE, {"!"})>>,
            <<Word("MINIMAL VIBES!", 20, TRUE, {"!"})>>,
            <<Word("SIMPLE ELEGANCE!", 19, TRUE, {"!"})>>,
            <<Word("MODERN LOOK!", 15, TRUE, {"!"})>>,
            <<Word("SOPHISTICATED!", 17, TRUE, {"!"})>>>>]

brandTemplatesDefault == <<<<Word("AMAZING DESIGN!", 17, TRUE, {"!", "amazing"})>>>>

(***************************************************************************)
(* Math.random().  A call draws from one stream of the generator; the      *)
(* k-th draw of the stream seeded r is ((r + k) mod 5) / 5.  Pick is       *)
(* templates[Math.floor(Math.random() * templates.length)].                *)
(***************************************************************************)
Draw(rnd, k) == (rnd + k) % 5

Pick(templates, d) == templates[((d * Len(templates)) \div 5) + 1]

generateVideoTitle(category, d) == Pick(Lookup(titleTemplates, category, titleTemplatesDefault), d)

generateMemeText(category, d) == Pick(Lookup(memeTemplates, category, memeTemplatesDefault), d)

generateBrandText(category, d) == Pick(Lookup(brandTemplates, category, brandTemplatesDefault), d)

(***************************************************************************)
(* Social media agent: overlays.  An overlay is (text, placement, style);  *)
(* ref names the preset entry the style object is, when it is one.         *)
(***************************************************************************)
Overlay(text, placement, style, ref) ==
  [text |-> text, placement |-> placement, style |-> style, ref |-> ref]

Offset(x, y) == Some([x |-> x, y |-> y])

\* { ...PRESET_TEXT_STYLES.<entry>, fontSize, opacity }
SpreadPreset(ps, entry, fontSize, opacityTenths) ==
  [ps[entry] EXCEPT !.fontSize = RatInt(fontSize), !.opacity = Some(Rat(opacityTenths, 10))]

TitleOptions == [contentType |-> "title", importance |-> "high"]

CalloutOptions == [contentType |-> "callout", importance |-> "high"]

\* generateVideoOverlays with a call-to-action on every platform
generateVideoOverlaysCtaEverywhere(ps, content, platform, mediaContext, d) ==
  Bind(generateTextOverlay(ps, generateVideoTitle(content.category, d),
                           mediaContext, TitleOptions), LAMBDA g :
  LET title == Overlay(g.overlay.text, g.overlay.placement, g.overlay.style,
                       Some(g.overlay.ref))
  IN  [presets |-> g.presets,
       overlays |->
         IF platform = "instagram"
           THEN <<title,
                  Overlay(<<Word("Double tap", 13, TRUE, {"tap"})>>,
                          TextPlacement(Some("bottom-left"), Offset(Some(10), Some(-10)), None, None),
                          SpreadPreset(g.presets, "caption", 16, 8), None)>>
         ELSE <<title,
                Overlay(<<Word("FOLLOW FOR MORE", 21, FALSE, {})>>,
                        TextPlacement(Some("bottom-center"), Offset(None, Some(-10)), None, None),
                        SpreadPreset(g.presets, "callout", 18, 9), None)>>])

generateVideoOverlays(ps, content, platform, mediaContext, d) ==
  Bind(generateTextOverlay(ps, generateVideoTitle(content.category, d),
                           mediaContext, TitleOptions), LAMBDA g :
  LET title == Overlay(g.overlay.text, g.overlay.placement, g.overlay.style,
                       Some(g.overlay.ref))
  IN  [presets |-> g.presets,
       overlays |->
         IF platform = "tiktok"
           THEN <<title,
                  Overlay(<<Word("FOLLOW FOR MORE", 21, FALSE, {})>>,
                          TextPlacement(Some("bottom-center"), Offset(None, Some(-10)), None, None),
                          SpreadPreset(g.presets, "callout", 18, 9), None)>>
         ELSE IF platform = "instagram"
           THEN <<title,
                  Overlay(<<Word("Double tap", 13, TRUE, {"tap"})>>,
                          TextPlacement(Some("bottom-left"), Offset(Some(10), Some(-10)), None, None),
                          SpreadPreset(g.presets, "caption", 16, 8), None)>>
         ELSE <<title>>])

generateMemeOverlays(ps, content, platform, mediaContext, d) ==
  Bind(generateTextOverlay(ps, generateMemeText(content.category, d),
                           mediaContext, CalloutOptions), LAMBDA g :
      [presets |-> g.presets,
       overlays |->
         <<Overlay(g.overlay.text, g.overlay.placement,
                   [g.overlay.style EXCEPT !.fontFamily = "Impact",
                                           !.stroke = Stroke("#000000", 3)],
                   None),
           Overlay(<<Word("VIRAL", 11, FALSE, {})>>,
                   TextPlacement(Some("top-right"), Offset(Some(-10), Some(10)), None, None),
                   SpreadPreset(g.presets, "callout", 16, 9), None)>>])

generateGraphicOverlays(ps, content, platform, mediaContext, d) ==
  Bind(generateTextOverlay(ps, generateBrandText(content.category, d),
                           mediaContext, TitleOptions), LAMBDA g :
      [presets |-> g.presets,
       overlays |->
         <<Overlay(g.overlay.text, g.overlay.placement, g.overlay.style,
                   Some(g.overlay.ref)),
           Overlay(<<Word("SHARE THIS!", 14, TRUE, {"!"})>>,
                   TextPlacement(Some("bottom-center"), Offset(None, Some(-10)), None, None),
                   SpreadPreset(g.presets, "callout", 18, 9), None)>>])

generateSocialMediaOverlays(ps, content, platform, d) ==
  LET mediaContext == analyzeMediaContext(content.dimensions, content.type, content.duration)
  IN  CASE content.type = "video" -> generateVideoOverlays(ps, content, platform, mediaContext, d)
        [] content.type = "meme" -> generateMemeOverlays(ps, content, platform, mediaContext, d)
        [] content.type = "graphic" -> generateGraphicOverlays(ps, content, platform, mediaContext, d)

(***************************************************************************)
(* Social media agent: captions and posts.  A caption template is named by *)
(* its table key and index.  A call that throws returns threw = TRUE; what *)
(* it wrote to the preset table before throwing stays written.             *)
(***************************************************************************)
SocialPlatforms == {"tiktok", "instagram", "youtube", "twitter", "facebook"}

generateBaseCaption(content, d) ==
  IF content.category \in {"subway-surfers", "minecraft", "brainrot"}
    THEN <<content.category, (d * 5) \div 5>>
    ELSE <<"default", (d * 5) \div 5>>

\* platformCaptions[platform] is undefined for a platform outside the table,
\* and reading templates.length then throws
generatePlatformCaption(platform, d) ==
  IF platform \in SocialPlatforms
    THEN [threw |-> FALSE, value |-> <<platform, (d * 5) \div 5>>]
    ELSE [threw |-> TRUE, value |-> <<>>]

\* HashtagString without the '#' prefix
HashtagStringNoPrefix(hashtags) == [i \in 1..Len(hashtags) |-> <<"", hashtags[i]>>]

HashtagString(hashtags) == [i \in 1..Len(hashtags) |-> <<"#", hashtags[i]>>]

generateSocialMediaCaption(content, platform, hashtags, rnd, k) ==
  LET baseCaption == generateBaseCaption(content, Draw(rnd, k))
      platformCaption == generatePlatformCaption(platform, Draw(rnd, k + 1))
  IN  IF platformCaption.threw THEN [threw |-> TRUE, value |-> <<>>]
      ELSE [threw |-> FALSE,
            value |-> <<baseCaption, platformCaption.value, HashtagString(hashtags)>>]

\* k draws of the stream have been consumed before the call
generateSocialMediaPost(ps, content, platform, rnd, k) ==
  Bind(generateSocialMediaOverlays(ps, content, platform, Draw(rnd, k)), LAMBDA o :
  LET analysis == analyzeContent(content)
      hashtags == analysis.suggestedHashtags
      caption == generateSocialMediaCaption(content, platform, hashtags, rnd, k + 1)
  IN  IF caption.threw THEN [presets |-> o.presets, threw |-> TRUE, post |-> <<>>]
      ELSE [presets |-> o.presets, threw |-> FALSE,
            post |-> [id |-> <<"post", Draw(rnd, k + 3)>>,
                      contentId |-> content.id,
                      platform |-> platform,
                      textOverlays |-> o.overlays,
                      caption |-> caption.value,
                      hashtags |-> hashtags,
                      status |-> "draft",
                      scheduledTime |-> Draw(rnd, k + 4)]])

RECURSIVE PostsFrom(_, _, _, _, _, _)
PostsFrom(ps, content, platforms, i, rnd, acc) ==
  IF i > Len(platforms) THEN [presets |-> ps, threw |-> FALSE, posts |-> acc]
  ELSE Bind(generateSocialMediaPost(ps, content, platforms[i], rnd, 5 * (i - 1)), LAMBDA r :
         IF r.threw THEN [presets |-> r.presets, threw |-> TRUE, posts |-> <<>>]
         ELSE PostsFrom(r.presets, content, platforms, i + 1, rnd, Append(acc, r.post)))

generateMultiPlatformPosts(ps, content, platforms, rnd) ==
  PostsFrom(ps, content, platforms, 1, rnd, <<>>)

(***************************************************************************)
(* The process-content handler: analysis, then posts for the given         *)
(* platforms or else for the analysis' best platforms; an exception gives  *)
(* the 500 response.  The rendering of the overlays by the media provider  *)
(* (generateMedia) is outside the engine: of a processedMedia record only  *)
(* the fields the engine supplies are held.                                *)
(***************************************************************************)
processContent(ps, content, platforms, generateMedia, rnd) ==
  LET analysis == analyzeContent(content)
      targetPlatforms == IF IsSome(platforms) THEN Get(platforms) ELSE analysis.bestPlatforms
  IN  Bind(generateMultiPlatformPosts(ps, content, targetPlatforms, rnd), LAMBDA g :
  LET processed == IF generateMedia
                     THEN [i \in 1..Len(g.posts) |->
                             [postId |-> g.posts[i].id, platform |-> g.posts[i].platform,
                              textOverlays |-> g.posts[i].textOverlays]]
                     ELSE <<>>
  IN  IF g.threw
        THEN [presets |-> g.presets,
              response |-> [status |-> 500, error |-> "Failed to process social media content"]]
        ELSE [presets |-> g.presets,
              response |-> [status |-> 200, analysis |-> analysis, posts |-> g.posts,
                            processedMedia |-> processed,
                            totalPosts |-> Len(g.posts),
                            platforms |-> targetPlatforms]])

(***************************************************************************)
(* The post synthesizer as a state machine over the preset table.          *)
(***************************************************************************)
PostContents ==
  {Content("video_1", "video", "brainrot", Some(30), 1080, 1920,
           Some([likes |-> 50, shares |-> 0, comments |-> 0, views |-> 1500])),
   Content("meme_1", "meme", "viral-meme", None, 1080, 1080, None),
   Content("graphic_1", "graphic", "other", None, 2560, 1080, None)}

PlatformLists ==
  {<<>>, <<"tiktok">>, <<"youtube", "tiktok">>, <<"tiktok", "instagram">>,
   <<"instagram", "instagram">>, <<"twitter", "facebook">>,
   <<"tiktok", "instagram", "youtube">>}

RandomSeeds == {0, 4}

InitPosts ==
  /\ presets = PRESET_TEXT_STYLES
  /\ op = "init"
  /\ args = <<>>
  /\ ret = <<>>
  /\ calls = 0

GenerateSocialMediaOverlays ==
  /\ calls < MaxCalls
  /\ \E content \in PostContents, platform \in SocialPlatforms, rnd \in RandomSeeds :
       LET g == generateSocialMediaOverlays(presets, content, platform, Draw(rnd, 0))
       IN  /\ presets' = g.presets
           /\ op' = "generateSocialMediaOverlays"
           /\ args' = [content |-> content, platform |-> platform, rnd |-> rnd]
           /\ ret' = g.overlays
           /\ calls' = calls + 1

GenerateSocialMediaPost ==
  /\ calls < MaxCalls
  /\ \E content \in PostContents, platform \in SocialPlatforms, rnd \in RandomSeeds :
       LET g == generateSocialMediaPost(presets, content, platform, rnd, 0)
       IN  /\ presets' = g.presets
           /\ op' = "generateSocialMediaPost"
           /\ args' = [content |-> content, platform |-> platform, rnd |-> rnd]
           /\ ret' = [threw |-> g.threw, post |-> g.post]
           /\ calls' = calls + 1

GenerateMultiPlatformPosts ==
  /\ calls < MaxCalls
  /\ \E content \in PostContents, platforms \in PlatformLists, rnd \in RandomSeeds :
       LET g == generateMultiPlatformPosts(presets, content, platforms, rnd)
       IN  /\ presets' = g.presets
           /\ op' = "generateMultiPlatformPosts"
           /\ args' = [content |-> content, platforms |-> platforms, rnd |-> rnd]
           /\ ret' = [threw |-> g.threw, posts |-> g.posts]
           /\ calls' = calls + 1

ProcessContent ==
  /\ calls < MaxCalls
  /\ \E content \in PostContents, platforms \in {None, Some(<<>>), Some(<<"instagram">>)},
        generateMedia \in BOOLEAN, rnd \in RandomSeeds :
       LET g == processContent(presets, content, platforms, generateMedia, rnd)
       IN  /\ presets' = g.presets
           /\ op' = "processContent"
           /\ args' = [content |-> content, platforms |-> platforms,
                       generateMedia |-> generateMedia, rnd |-> rnd]
           /\ ret' = g.response
           /\ calls' = calls + 1

NextPosts ==
  \/ GenerateSocialMediaOverlays
  \/ GenerateSocialMediaPost
  \/ GenerateMultiPlatformPosts
  \/ ProcessContent

SpecPosts == InitPosts /\ [][NextPosts]_vars

(***************************************************************************)
(* generateOptimalPlacement applied to every content type (a missing one   *)
(* included), importance, aspect ratio, media type and duration.           *)
(***************************************************************************)
PlacementContentTypes == ContentTypes \cup {"undefined"}

\* the media types of the MediaContext type and the media kinds that
\* generateSocialMediaOverlays passes on as the type
MediaTypes == {"image", "video", "meme", "graphic"}

Durations == {None, Some(0), Some(3), Some(5), Some(30)}

PlacementInputs ==
  {[contentAnalysis |-> [contentType |-> contentType, importance |-> importance,
                         context |-> type],
    mediaContext |-> [type |-> type, aspectRatio |-> aspectRatio,
                      brightness |-> "medium", duration |-> duration]] :
     contentType \in PlacementContentTypes, importance \in Importances,
     aspectRatio \in AspectRatios, type \in MediaTypes, duration \in Durations}

InitPlacement ==
  /\ presets = PRESET_TEXT_STYLES
  /\ op = "init"
  /\ args \in PlacementInputs
  /\ ret = <<>>
  /\ calls = 0

GenerateOptimalPlacement ==
  /\ op = "init"
  /\ op' = "generateOptimalPlacement"
  /\ ret' = generateOptimalPlacement(args.contentAnalysis, args.mediaContext)
  /\ calls' = calls + 1
  /\ UNCHANGED <<presets, args>>

NextPlacement == GenerateOptimalPlacement

SpecPlacement == InitPlacement /\ [][NextPlacement]_vars

(***************************************************************************)
(* text-overlay-types.ts: the validators.  errors is the list of pushed    *)
(* messages in push order; a field that is undefined is None.  The style   *)
(* given to validateTextStyle holds what the validator reads: fontSize,    *)
(* opacity, stroke.width and shadow.blur.                                  *)
(***************************************************************************)
Pushed(checks) ==
  LET RECURSIVE From(_)
      From(i) == IF i > Len(checks) THEN <<>>
                 ELSE IF checks[i][1] THEN <<checks[i][2]>> \o From(i + 1)
                 ELSE From(i + 1)
  IN  From(1)

Validation(errors) == [isValid |-> Len(errors) = 0, errors |-> errors]

\* validateTextPlacement accepting equal start and end times
validateTextPlacementEqualTimes(placement) ==
  Validation(Pushed(<<
    <<IsSome(placement.position) /\ IsSome(placement.gravity),
      "Cannot use both position and gravity - use one or the other">>,
    <<IsSome(placement.x) /\ (Get(placement.x) < 0 \/ Get(placement.x) > 100),
      "X coordinate must be between 0 and 100">>,
    <<IsSome(placement.y) /\ (Get(placement.y) < 0 \/ Get(placement.y) > 100),
      "Y coordinate must be between 0 and 100">>,
    <<IsSome(placement.startTime) /\ Get(placement.startTime) < 0,
      "Start time must be non-negative">>,
    <<IsSome(placement.endTime) /\ Get(placement.endTime) < 0,
      "End time must be non-negative">>,
    <<IsSome(placement.startTime) /\ IsSome(placement.endTime)
        /\ Get(placement.startTime) > Get(placement.endTime),
      "Start time must be less than end time">> >>))

validateTextPlacement(placement) ==
  Validation(Pushed(<<
    <<IsSome(placement.position) /\ IsSome(placement.gravity),
      "Cannot use both position and gravity - use one or the other">>,
    <<IsSome(placement.x) /\ (Get(placement.x) < 0 \/ Get(placement.x) > 100),
      "X coordinate must be between 0 and 100">>,
    <<IsSome(placement.y) /\ (Get(placement.y) < 0 \/ Get(placement.y) > 100),
      "Y coordinate must be between 0 and 100">>,
    <<IsSome(placement.startTime) /\ Get(placement.startTime) < 0,
      "Start time must be non-negative">>,
    <<IsSome(placement.endTime) /\ Get(placement.endTime) < 0,
      "End time must be non-negative">>,
    <<IsSome(placement.startTime) /\ IsSome(placement.endTime)
        /\ Get(placement.startTime) >= Get(placement.endTime),
      "Start time must be less than end time">> >>))

RatLt(r, s) == ~RatLe(s, r)

\* r < lo || r > hi
RatOutside(r, lo, hi) == RatLt(r, RatInt(lo)) \/ RatLt(RatInt(hi), r)

\* validateTextStyle rejecting the upper boundary of the font size
validateTextStyleOpenTop(style) ==
  Validation(Pushed(<<
    <<IsSome(style.fontSize)
        /\ (RatLt(Get(style.fontSize), RatInt(8)) \/ RatLe(RatInt(200), Get(style.fontSize))),
      "Font size must be between 8 and 200 pixels">>,
    <<IsSome(style.opacity) /\ RatOutside(Get(style.opacity), 0, 1),
      "Opacity must be between 0 and 1">>,
    <<IsSome(style.stroke) /\ IsSome(Get(style.stroke).width)
        /\ RatOutside(Get(Get(style.stroke).width), 0, 20),
      "Stroke width must be between 0 and 20 pixels">>,
    <<IsSome(style.shadow) /\ IsSome(Get(style.shadow).blur)
        /\ RatOutside(Get(Get(style.shadow).blur), 0, 50),
      "Shadow blur must be between 0 and 50 pixels">> >>))

validateTextStyle(style) ==
  Validation(Pushed(<<
    <<IsSome(style.fontSize) /\ RatOutside(Get(style.fontSize), 8, 200),
      "Font size must be between 8 and 200 pixels">>,
    <<IsSome(style.opacity) /\ RatOutside(Get(style.opacity), 0, 1),
      "Opacity must be between 0 and 1">>,
    <<IsSome(style.stroke) /\ IsSome(Get(style.stroke).width)
        /\ RatOutside(Get(Get(style.stroke).width), 0, 20),
      "Stroke width must be between 0 and 20 pixels">>,
    <<IsSome(style.shadow) /\ IsSome(Get(style.shadow).blur)
        /\ RatOutside(Get(Get(style.shadow).blur), 0, 50),
      "Shadow blur must be between 0 and 50 pixels">> >>))

\* The validated placements: every combination of a set or unset position
\* and gravity with coordinates and times below, at, between and above the
\* limits.
Coordinates == {None, Some(-1), Some(0), Some(50), Some(100), Some(101)}

Times == {None, Some(-1), Some(0), Some(5)}

ValidatedPlacements ==
  {[x |-> x, y |-> y, position |-> position, gravity |-> gravity, offset |-> None,
    startTime |-> startTime, endTime |-> endTime] :
     x \in Coordinates, y \in Coordinates,
     position \in {None, Some("top-center")}, gravity \in {None, Some("north")},
     startTime \in Times, endTime \in Times}

Fraction(n, d) == [num |-> n, den |-> d]

Limits(lo, hi) ==
  {None, Some(Fraction(10 * lo - 1, 10)), Some(RatInt(lo)), Some(RatInt(hi)),
   Some(Fraction(10 * hi + 1, 10))}

ValidatedStyles ==
  {[fontSize |-> fontSize, opacity |-> opacity, stroke |-> stroke, shadow |-> shadow] :
     fontSize \in Limits(8, 200) \cup {Some(RatInt(300))},
     opacity \in Limits(0, 1) \cup {Some(Fraction(1, 2))},
     stroke \in {None} \cup {Some([color |-> "#000000", width |-> w]) : w \in Limits(0, 20)},
     shadow \in {None} \cup {Some([color |-> "#000000", blur |-> b]) : b \in Limits(0, 50)}}

InitValidate ==
  /\ presets = PRESET_TEXT_STYLES
  /\ op = "init"
  /\ args \in {[placement |-> q] : q \in ValidatedPlacements}
              \cup {[style |-> q] : q \in ValidatedStyles}
  /\ ret = <<>>
  /\ calls = 0

ValidateTextPlacement ==
  /\ op = "init"
  /\ "placement" \in DOMAIN args
  /\ op' = "validateTextPlacement"
  /\ ret' = validateTextPlacement(args.placement)
  /\ calls' = calls + 1
  /\ UNCHANGED <<presets, args>>

ValidateTextStyle ==
  /\ op = "init"
  /\ "style" \in DOMAIN args
  /\ op' = "validateTextStyle"
  /\ ret' = validateTextStyle(args.style)
  /\ calls' = calls + 1
  /\ UNCHANGED <<presets, args>>

NextValidate ==
  \/ ValidateTextPlacement
  \/ ValidateTextStyle

SpecValidate == InitValidate /\ [][NextValidate]_vars

(***************************************************************************)
(* text-overlay-types.ts: mergeTextStyle.  Here a style object is the      *)
(* function from its own keys to their values, None being the value        *)
(* undefined and Some(v) any other; a sub-object is such a function too.   *)
(***************************************************************************)
NoFields == [k \in {} |-> None]

\* the value read at obj.k
Read(obj, k) == IF k \in DOMAIN obj THEN obj[k] ELSE None

\* the own keys that ...o copies: none when o is undefined
Fields(o) == IF IsSome(o) THEN Get(o) ELSE NoFields

SubObjects == {"stroke", "shadow", "animation"}

\* mergeTextStyle as the plain spread { ...defaults, ...style }
mergeTextStyleShallow(style, defaults) == ObjectAssign(defaults, style)

mergeTextStyle(style, defaults) ==
  ObjectAssign(ObjectAssign(defaults, style),
               [k \in SubObjects |->
                  IF IsSome(Read(style, k))
                    THEN Some(ObjectAssign(Fields(Read(defaults, k)), Get(Read(style, k))))
                    ELSE Read(defaults, k)])

\* An object with key k when the choice is <<v>> and without it when <<>>
Field(k, choice) == IF Len(choice) = 0 THEN NoFields ELSE [x \in {k} |-> choice[1]]

Absent == <<>>

Present(v) == <<v>>

Join(a, b) == ObjectAssign(a, b)

PartialStrokes ==
  {Join(Field("color", c), Field("width", w)) :
     c \in {Absent, Present(None), Present(Some("#ff0000"))},
     w \in {Absent, Present(Some(5))}}

PartialStyles ==
  {Join(Join(Field("color", c), Field("fontSize", z)),
        Join(Field("stroke", st), Join(Field("shadow", sh), Field("animation", an)))) :
     c \in {Absent, Present(None), Present(Some("#111111"))},
     z \in {Absent, Present(Some(40))},
     st \in {Absent, Present(None)} \cup {Present(Some(o)) : o \in PartialStrokes},
     sh \in {Absent, Present(Some(Field("blur", Present(Some(9)))))},
     an \in {Absent, Present(Some(Field("delay", Present(Some(1)))))}}

BaseStyles ==
  {Join(Join(Field("color", c), Field("fontSize", Present(Some(24)))),
        Join(Field("stroke", st), Join(Field("shadow", sh), Field("animation", an)))) :
     c \in {Absent, Present(Some("#ffffff"))},
     st \in {Absent,
             Present(Some(Join(Field("color", Present(Some("#000000"))),
                               Field("width", Present(Some(2))))))},
     sh \in {Absent,
             Present(Some(Join(Field("color", Present(Some("#000000"))),
                               Field("blur", Present(Some(4))))))},
     an \in {Absent,
             Present(Some(Join(Field("type", Present(Some("fade"))),
                               Field("duration", Present(Some(2))))))}}

InitMerge ==
  /\ presets = PRESET_TEXT_STYLES
  /\ op = "init"
  /\ args \in {[style |-> a, defaults |-> b] : a \in PartialStyles, b \in BaseStyles}
  /\ ret = <<>>
  /\ calls = 0

MergeTextStyle ==
  /\ op = "init"
  /\ op' = "mergeTextStyle"
  /\ ret' = mergeTextStyle(args.style, args.defaults)
  /\ calls' = calls + 1
  /\ UNCHANGED <<presets, args>>

NextMerge == MergeTextStyle

SpecMerge == InitMerge /\ [][NextMerge]_vars

(***************************************************************************)
(* generateMultipleTextOverlays: the single-overlay generator mapped over  *)
(* the segments in index order, each call seeing the preset table as the   *)
(* calls before it left it.  A segment's type and importance are None when *)
(* the segment does not give them; customOptions then holds the keys with  *)
(* the value undefined.                                                    *)
(***************************************************************************)
OffsetPart(placement, axis) ==
  IF IsSome(placement.offset) /\ IsSome(Get(placement.offset)[axis])
    THEN Get(Get(placement.offset)[axis]) ELSE 0

\* adjustPlacementForMultipleOverlays leaving the first overlay where it is
adjustPlacementAfterFirst(placement, index, totalCount) ==
  IF ~IsSome(placement.position) \/ index = 0 THEN placement
  ELSE [placement EXCEPT !.offset =
          Offset(Some(OffsetPart(placement, "x") + ((index % 3) - 1) * 20),
                 Some(OffsetPart(placement, "y") + (index \div 3) * 30))]

\* adjustPlacementForMultipleOverlays without the vertical step of each
\* fourth overlay
adjustPlacementSingleRow(placement, index, totalCount) ==
  IF ~IsSome(placement.position) THEN placement
  ELSE [placement EXCEPT !.offset =
          Offset(Some(OffsetPart(placement, "x") + ((index % 3) - 1) * 20),
                 Some(OffsetPart(placement, "y")))]

adjustPlacementForMultipleOverlays(placement, index, totalCount) ==
  IF ~IsSome(placement.position) THEN placement
  ELSE [placement EXCEPT !.offset =
          Offset(Some(OffsetPart(placement, "x") + ((index % 3) - 1) * 20),
                 Some(OffsetPart(placement, "y") + (index \div 3) * 30))]

OrUndefined(o) == IF IsSome(o) THEN Get(o) ELSE "undefined"

SegmentOptions(segment) ==
  [contentType |-> OrUndefined(segment.type), importance |-> OrUndefined(segment.importance)]

\* index is 0-based, as in Array.map
RECURSIVE OverlaysFrom(_, _, _, _, _)
OverlaysFrom(ps, textSegments, index, mediaContext, acc) ==
  IF index >= Len(textSegments) THEN [presets |-> ps, overlays |-> acc]
  ELSE Bind(generateTextOverlay(ps, textSegments[index + 1].text, mediaContext,
                                SegmentOptions(textSegments[index + 1])), LAMBDA g :
         OverlaysFrom(g.presets, textSegments, index + 1, mediaContext,
           Append(acc,
             IF Len(textSegments) > 1
               THEN [g.overlay EXCEPT !.placement =
                       adjustPlacementForMultipleOverlays(g.overlay.placement, index,
                                                          Len(textSegments))]
               ELSE g.overlay)))

generateMultipleTextOverlays(ps, textSegments, mediaContext) ==
  OverlaysFrom(ps, textSegments, 0, mediaContext, <<>>)

Segment(text, type, importance) == [text |-> text, type |-> type, importance |-> importance]

SegmentHeadline ==
  Segment(<<Word("Hello", 5, TRUE, {}), Word("world", 5, FALSE, {})>>,
          Some("title"), Some("high"))

SegmentPlain ==
  Segment(<<Word("click here", 10, FALSE, {"click"}), Word("done.", 5, FALSE, {"."})>>,
          None, None)

SegmentAlert ==
  Segment(<<Word("URGENT", 6, TRUE, {"urgent"}), Word("Wow!", 4, TRUE, {"!", "wow"})>>,
          Some("callout"), Some("critical"))

SegmentLists ==
  {<<>>,
   <<SegmentHeadline>>,
   <<SegmentPlain>>,
   <<SegmentHeadline, SegmentPlain>>,
   <<SegmentAlert, SegmentHeadline>>,
   <<SegmentPlain, SegmentAlert, SegmentHeadline>>,
   <<SegmentHeadline, SegmentPlain, SegmentAlert, SegmentPlain>>,
   <<SegmentPlain, SegmentPlain, SegmentHeadline, SegmentAlert, SegmentPlain,
     SegmentHeadline, SegmentPlain>>}

InitMultiple ==
  /\ presets = PRESET_TEXT_STYLES
  /\ op = "init"
  /\ args = <<>>
  /\ ret = <<>>
  /\ calls = 0

GenerateMultipleTextOverlays ==
  /\ calls < MaxCalls
  /\ \E textSegments \in SegmentLists, mediaContext \in OverlayMediaContexts :
     \E g \in {generateMultipleTextOverlays(presets, textSegments, mediaContext)} :
       /\ presets' = g.presets
       /\ op' = "generateMultipleTextOverlays"
       /\ args' = [textSegments |-> textSegments, mediaContext |-> mediaContext]
       /\ ret' = g.overlays
       /\ calls' = calls + 1

NextMultiple == GenerateMultipleTextOverlays

SpecMultiple == InitMultiple /\ [][NextMultiple]_vars

(***************************************************************************)
(* batchGeneratePosts: generateMultiPlatformPosts for every content item   *)
(* in order, the posts appended to one list.  platforms is None when the   *)
(* caller leaves the parameter out.                                        *)
(***************************************************************************)
DefaultBatchPlatforms == <<"tiktok", "instagram", "youtube">>

\* consumed is the number of posts made before content i
RECURSIVE BatchFrom(_, _, _, _, _, _, _)
BatchFrom(ps, contents, i, platforms, rnd, consumed, acc) ==
  IF i > Len(contents) THEN [presets |-> ps, threw |-> FALSE, posts |-> acc]
  ELSE Bind(generateMultiPlatformPosts(ps, contents[i], platforms, Draw(rnd, 5 * consumed)),
            LAMBDA r :
         IF r.threw THEN [presets |-> r.presets, threw |-> TRUE, posts |-> <<>>]
         ELSE BatchFrom(r.presets, contents, i + 1, platforms, rnd,
                        consumed + Len(platforms), acc \o r.posts))

\* batchGeneratePosts with the posts in platform-major order
batchGeneratePostsPlatformMajor(ps, contents, platforms, rnd) ==
  LET list == IF IsSome(platforms) THEN Get(platforms) ELSE DefaultBatchPlatforms
  IN  Bind(BatchFrom(ps, contents, 1, list, rnd, 0, <<>>), LAMBDA r :
        [r EXCEPT !.posts =
           [n \in 1..Len(r.posts) |->
              r.posts[((n - 1) % Len(contents)) * Len(list)
                      + ((n - 1) \div Len(contents)) + 1]]])

batchGeneratePosts(ps, contents, platforms, rnd) ==
  LET list == IF IsSome(platforms) THEN Get(platforms) ELSE DefaultBatchPlatforms
  IN  BatchFrom(ps, contents, 1, list, rnd, 0, <<>>)

BatchVideo ==
  Content("video_1", "video", "brainrot", Some(30), 1080, 1920,
          Some([likes |-> 50, shares |-> 0, comments |-> 0, views |-> 1500]))

BatchMeme == Content("meme_1", "meme", "viral-meme", None, 1080, 1080, None)

BatchGraphic == Content("graphic_1", "graphic", "other", None, 2560, 1080, None)

ContentLists ==
  {<<>>, <<BatchVideo>>, <<BatchGraphic, BatchMeme>>, <<BatchMeme, BatchMeme>>,
   <<BatchVideo, BatchMeme, BatchGraphic>>}

BatchPlatformLists ==
  {None, Some(<<>>), Some(<<"twitter">>), Some(<<"instagram", "tiktok">>),
   Some(<<"facebook", "youtube", "facebook">>)}

InitBatch ==
  /\ presets = PRESET_TEXT_STYLES
  /\ op = "init"
  /\ args = <<>>
  /\ ret = <<>>
  /\ calls = 0

BatchGeneratePosts ==
  /\ calls < MaxCalls
  /\ \E contents \in ContentLists, platforms \in BatchPlatformLists, rnd \in RandomSeeds :
     \E g \in {batchGeneratePosts(presets, contents, platforms, rnd)} :
       /\ presets' = g.presets
       /\ op' = "batchGeneratePosts"
       /\ args' = [contents |-> contents, platforms |-> platforms, rnd |-> rnd]
       /\ ret' = [threw |-> g.threw, posts |-> g.posts]
       /\ calls' = calls + 1

NextBatch == BatchGeneratePosts

SpecBatch == InitBatch /\ [][NextBatch]_vars

(***************************************************************************)
(* The colour and font adjustments over every profile.  Up to MaxCalls - 1 *)
(* earlier calls from the profiles of Spec leave the preset table in the   *)
(* states the adjustments can find it in; the last call takes any          *)
(* combination of tone, importance, audience and brightness, or any        *)
(* combination of custom options with brand guidelines.                    *)
(***************************************************************************)
ColourProfiles == Tones \X Importances \X Audiences \X Brightnesses

\* the content types of the earlier calls: the entry the last call reads
\* ("title") and an entry it never reads
EarlierContentTypes == {"title", "watermark"}

BrandGuidelines ==
  {[primaryColor |-> c, fontFamily |-> f] :
     c \in {None, Some("#123456")}, f \in {None, Some("Georgia")}}

\* customOptions objects: each of tone, importance and brandGuidelines is
\* either left out or given
BrandOptions ==
  LET Tone(t) == IF t = "undefined" THEN NoOptions ELSE [tone |-> t]
      Importance(i) == IF i = "undefined" THEN NoOptions ELSE [importance |-> i]
      Brand(b) == IF b = None THEN NoOptions ELSE [brandGuidelines |-> b]
  IN  {ObjectAssign(ObjectAssign([contentType |-> "title"], Tone(t)),
                    ObjectAssign(Importance(i), Brand(b))) :
         t \in {"undefined", "playful", "professional", "urgent"},
         i \in {"undefined", "critical", "high"},
         b \in {None} \cup {Some(g) : g \in BrandGuidelines}}

StyleBefore ==
  /\ calls < MaxCalls - 1
  /\ \E contentType \in EarlierContentTypes, profile \in StyleProfiles :
       LET contentAnalysis == StyleAnalysis(contentType, "medium", profile)
           mediaContext == StyleMediaContext(profile)
           g == generateOptimalStyle(presets, contentAnalysis, mediaContext)
       IN  /\ presets' = g.presets
           /\ op' = "generateOptimalStyle"
           /\ args' = [contentAnalysis |-> contentAnalysis, mediaContext |-> mediaContext]
           /\ ret' = [ref |-> g.ref, style |-> g.style]
           /\ calls' = calls + 1

StyleOfProfile ==
  /\ calls = MaxCalls - 1
  /\ \E profile \in ColourProfiles :
       LET contentAnalysis == StyleAnalysis("title", "medium", profile)
           mediaContext == StyleMediaContext(profile)
           g == generateOptimalStyle(presets, contentAnalysis, mediaContext)
       IN  /\ presets' = g.presets
           /\ op' = "generateOptimalStyle"
           /\ args' = [contentAnalysis |-> contentAnalysis, mediaContext |-> mediaContext]
           /\ ret' = [ref |-> g.ref, style |-> g.style]
           /\ calls' = calls + 1

OverlayOfBrand ==
  /\ calls = MaxCalls - 1
  /\ \E text \in OverlayTexts, mediaContext \in OverlayMediaContexts,
        customOptions \in BrandOptions :
       LET g == generateTextOverlay(presets, text, mediaContext, customOptions)
       IN  /\ presets' = g.presets
           /\ op' = "generateTextOverlay"
           /\ args' = [text |-> text, mediaContext |-> mediaContext,
                       customOptions |-> customOptions]
           /\ ret' = g.overlay
           /\ calls' = calls + 1

NextColour ==
  \/ StyleBefore
  \/ StyleOfProfile
  \/ OverlayOfBrand

SpecColour == Init /\ [][NextColour]_vars

(***************************************************************************)
(* The generate-posts handler.  The content of the request body is absent, *)
(* one JSON object (items holds it; absent names the required fields it    *)
(* lacks) or a JSON array of objects (items).  An array has none of the    *)
(* required fields as a property of its own.                               *)
(***************************************************************************)
NoContent == [kind |-> "absent", items |-> <<>>, absent |-> {}]

ObjectContent(item, absent) == [kind |-> "object", items |-> <<item>>, absent |-> absent]

ArrayContent(items) == [kind |-> "array", items |-> items, absent |-> {}]

RequiredFields == <<"id", "type", "category", "title", "contentUrl", "dimensions">>

\* content[field] is truthy
HasField(content, field) == content.kind = "object" /\ field \notin content.absent

\* the index of the first required field that the loop finds missing, or 0
FirstMissing(content) ==
  LET missing == {i \in 1..Len(RequiredFields) : ~HasField(content, RequiredFields[i])}
  IN  IF missing = {} THEN 0 ELSE CHOOSE i \in missing : \A j \in missing : i <= j

generatePosts(ps, body, rnd) ==
  IF body.content.kind = "absent"
    THEN [presets |-> ps,
          response |-> [status |-> 400, error |-> "Content is required"]]
  ELSE IF FirstMissing(body.content) # 0
    THEN [presets |-> ps,
          response |-> [status |-> 400, error |-> "Missing required field",
                        field |-> RequiredFields[FirstMissing(body.content)]]]
  ELSE Bind(IF body.batch /\ body.content.kind = "array"
              THEN batchGeneratePosts(ps, body.content.items, body.platforms, rnd)
            ELSE IF IsSome(body.platforms)
              THEN generateMultiPlatformPosts(ps, body.content.items[1],
                                              Get(body.platforms), rnd)
            ELSE Bind(generateSocialMediaPost(ps, body.content.items[1], "tiktok", rnd, 0),
                      LAMBDA r : [presets |-> r.presets, threw |-> r.threw,
                                  posts |-> IF r.threw THEN <<>> ELSE <<r.post>>]),
            LAMBDA g :
         IF g.threw
           THEN [presets |-> g.presets,
                 response |-> [status |-> 500, error |-> "Failed to generate posts"]]
           ELSE [presets |-> g.presets,
                 response |-> [status |-> 200, success |-> TRUE, posts |-> g.posts,
                               count |-> Len(g.posts),
                               content |-> body.content.items]])

PostRequests ==
  {[content |-> NoContent, platforms |-> None, batch |-> FALSE],
   [content |-> ObjectContent(BatchVideo, {}), platforms |-> None, batch |-> FALSE],
   [content |-> ObjectContent(BatchMeme, {}), platforms |-> None, batch |-> FALSE],
   [content |-> ObjectContent(BatchGraphic, {}), platforms |-> None, batch |-> TRUE],
   [content |-> ObjectContent(BatchGraphic, {}), platforms |-> Some(<<>>), batch |-> FALSE],
   [content |-> ObjectContent(BatchMeme, {"id"}), platforms |-> Some(<<"tiktok">>),
    batch |-> TRUE],
   [content |-> ObjectContent(BatchMeme, {}),
    platforms |-> Some(<<"instagram", "youtube">>), batch |-> FALSE],
   [content |-> ObjectContent(BatchVideo, {}),
    platforms |-> Some(<<"linkedin">>), batch |-> FALSE],
   [content |-> ObjectContent(BatchGraphic, {"title", "dimensions"}),
    platforms |-> None, batch |-> FALSE],
   [content |-> ArrayContent(<<BatchVideo, BatchMeme>>), platforms |-> None, batch |-> TRUE],
   [content |-> ArrayContent(<<BatchGraphic>>),
    platforms |-> Some(<<"tiktok">>), batch |-> TRUE],
   [content |-> ArrayContent(<<BatchMeme>>), platforms |-> None, batch |-> FALSE]}

GeneratePosts ==
  /\ calls < MaxCalls
  /\ \E body \in PostRequests, rnd \in RandomSeeds :
     \E g \in {generatePosts(presets, body, rnd)} :
       /\ presets' = g.presets
       /\ op' = "generatePosts"
       /\ args' = [body |-> body, rnd |-> rnd]
       /\ ret' = g.response
       /\ calls' = calls + 1

NextHandler == GeneratePosts

SpecHandler == InitPosts /\ [][NextHandler]_vars

(***************************************************************************)
(* Properties of the overlay generator (Spec).                             *)
(***************************************************************************)

\* C1: generateOptimalStyle is referentially transparent: after any sequence
\* of earlier calls, the style it returns equals the style the same call
\* returns as the first call on a freshly loaded module.
C1_ReferentiallyTransparent ==
  op = "generateOptimalStyle" =>
    ret.style = generateOptimalStyle(PRESET_TEXT_STYLES, args.contentAnalysis,
                                     args.mediaContext).style

\* C2: the preset style table is a fixed lookup table: after any sequence of
\* calls every field of every entry still has its initial value.
C2_PresetTableFixed == presets = PRESET_TEXT_STYLES

FontSizeInRange(style) ==
  /\ RatLe(RatInt(16), style.fontSize)
  /\ RatLe(style.fontSize, RatInt(72))

AsTextStyle(style) ==
  [fontSize |-> Some(style.fontSize),
   opacity |-> style.opacity,
   stroke |-> IF IsSome(style.stroke)
                THEN Some([color |-> Get(style.stroke).color,
                           width |-> Some(RatInt(Get(style.stroke).width))])
                ELSE None,
   shadow |-> IF IsSome(style.shadow)
                THEN Some([color |-> Get(style.shadow).color,
                           blur |-> Some(RatInt(Get(style.shadow).blur))])
                ELSE None]

\* C30: every overlay that generateTextOverlay returns passes its own
\* validation: for every text, custom option set and media context whose
\* duration is absent or non-negative, and after any sequence of earlier
\* calls, validateTextPlacement(placement) and validateTextStyle(style) report
\* isValid = true; createPlacementFromPosition(p) is valid with zero errors
\* for each of the nine preset positions.
C30_GeneratedOverlaysValid ==
  /\ op = "generateTextOverlay" =>
       /\ validateTextPlacement(ret.placement).isValid
       /\ validateTextStyle(AsTextStyle(ret.style)).isValid
  /\ op = "createPlacementFromPosition" =>
       validateTextPlacement(ret) = Validation(<<>>)

\* C30 witness: an overlay for a video of duration 0, generated after
\* earlier calls, has no timing window and is valid
C30_Witness ==
  /\ op = "generateTextOverlay"
  /\ calls = MaxCalls
  /\ args.mediaContext.duration = Some(0)
  /\ ret.placement.startTime = None
  /\ validateTextPlacement(ret.placement).isValid
  /\ validateTextStyle(AsTextStyle(ret.style)).isValid

\* C24: for the short plain phrase 'Hello World' on a 1920x1080 image,
\* generateTextOverlay with no custom options returns analysis.contentType
\* 'caption', analysis.textLength 'short' and placement position
\* 'bottom-center', as the guide's Quick Start output shows.
C24_QuickStartOutput ==
  (/\ op = "generateTextOverlay"
   /\ args.text = HelloWorld
   /\ args.mediaContext = analyzeMediaContext([width |-> 1920, height |-> 1080], "image", None)
   /\ args.customOptions = NoOptions) =>
    /\ ret.analysis.contentType = "caption"
    /\ ret.analysis.textLength = "short"
    /\ ret.placement.position = Some("bottom-center")

(***************************************************************************)
(* Properties of the classifier (SpecClassify).                            *)
(***************************************************************************)
ClaimedContentType(text) ==
  IF IncludesAny(text, {"<copyright-sign>", "copyright", "watermark"}) THEN "watermark"
  ELSE IF IncludesAny(text, {"!", "urgent", "important"}) THEN "callout"
  ELSE IF IncludesAny(text, {"\"", "said", "quote"}) THEN "quote"
  ELSE IF Includes(text, "<statistic>") THEN "statistic"
  ELSE IF IncludesAny(text, {"click", "tap", "press", "enter"}) THEN "instruction"
  ELSE IF IncludesAny(text, {"disclaimer", "terms", "conditions"}) THEN "disclaimer"
  ELSE IF IncludesAny(text, {"photo by", "credit", "courtesy"}) THEN "credit"
  ELSE IF TextLength(text) < 50 /\ SingleSentence(text) THEN "title"
  ELSE IF TextLength(text) < 100 /\ SingleSentence(text) THEN "subtitle"
  ELSE "caption"

\* C5: the classifier picks contentType by first match in the order
\* watermark, callout, quote, statistic, instruction, disclaimer, credit,
\* title, subtitle, caption: a keyword rule wins over the title and subtitle
\* rules.
C5_KeywordRulesFirst ==
  op = "determineContentType" => ret = ClaimedContentType(args.text)

(***************************************************************************)
(* Properties of the analyzer (SpecAnalyze).                               *)
(***************************************************************************)

\* C7: for every media kind, category and combination of non-negative
\* engagement counters, and when engagement is absent, the trending score
\* lies in [0, 100].
C7_TrendingScoreInRange ==
  op = "analyzeContent" =>
    /\ RatLe(RatInt(0), ret.trendingScore)
    /\ RatLe(ret.trendingScore, RatInt(100))

\* C7 witness: a video whose category bonus and engagement terms add up to
\* more than 100 (50 + 35 + 20 + 15) and is scored 100.
C7_Witness ==
  /\ op = "analyzeContent"
  /\ args.content.type = "video"
  /\ args.content.category = "brainrot"
  /\ IsSome(args.content.engagement)
  /\ Get(args.content.engagement).views = 10000000
  /\ Get(args.content.engagement).likes = 10000000
  /\ ret.trendingScore = RatInt(100)

\* C8: the trending score is an integer for every content item whose
\* engagement counters are non-negative integers.
C8_TrendingScoreInteger ==
  op = "analyzeContent" => RatIsInteger(ret.trendingScore)

ClaimedBonus(category) ==
  IF category = "subway-surfers" THEN 30
  ELSE IF category = "minecraft" THEN 25
  ELSE IF category = "brainrot" THEN 35
  ELSE 0

ClaimedVideoScore(content) ==
  LET views == IF IsSome(content.engagement)
                 THEN RatMin(Rat(Get(content.engagement).views, 1000), RatInt(20))
                 ELSE RatInt(0)
      likes == IF IsSome(content.engagement)
                 THEN RatMin(Rat(Get(content.engagement).likes, 100), RatInt(15))
                 ELSE RatInt(0)
  IN  RatMin(RatInt(100),
             RatAdd(RatInt(50 + ClaimedBonus(content.category)), RatAdd(views, likes)))

\* C9: for video content the trending score equals
\* min(100, 50 + bonus(category) + min(views/1000, 20) + min(likes/100, 15));
\* a subway-surfers video scores at least 80 and its bestPlatforms is
\* [tiktok, instagram, youtube] in that order.
C9_VideoScoreFormula ==
  (op = "analyzeContent" /\ args.content.type = "video") =>
    /\ ret.trendingScore = ClaimedVideoScore(args.content)
    /\ args.content.category = "subway-surfers" =>
         /\ RatLe(RatInt(80), ret.trendingScore)
         /\ ret.bestPlatforms = <<"tiktok", "instagram", "youtube">>

\* C9 witness: a subway-surfers video with engagement whose terms are not
\* whole numbers: 50 + 30 + 1500/1000 + 50/100 = 82.
C9_Witness ==
  /\ op = "analyzeContent"
  /\ args.content.type = "video"
  /\ args.content.category = "subway-surfers"
  /\ IsSome(args.content.engagement)
  /\ Get(args.content.engagement).views = 1500
  /\ Get(args.content.engagement).likes = 50
  /\ ret.trendingScore = RatInt(82)

\* C27: every platform in analyzeContent(content).bestPlatforms is one of the
\* five supported platforms (tiktok, instagram, youtube, twitter, facebook),
\* for every media kind and category.
C27_BestPlatformsSupported ==
  op = "analyzeContent" =>
    \A n \in 1..Len(ret.bestPlatforms) : ret.bestPlatforms[n] \in SocialPlatforms

(***************************************************************************)
(* Properties of the post synthesizer (SpecPosts).                         *)
(***************************************************************************)

\* What a caller reads in an overlay: a style that is a preset entry shows
\* the entry as the table holds it when the call has returned.
Observed(overlays, ps) ==
  [i \in 1..Len(overlays) |->
     [text |-> overlays[i].text,
      placement |-> overlays[i].placement,
      style |-> IF IsSome(overlays[i].ref) THEN ps[Get(overlays[i].ref)]
                ELSE overlays[i].style]]

\* generateSocialMediaPost(content, platform) alone on fresh module state,
\* with the random choices the j-th post of a list gets
Standalone(content, platform, rnd, j) ==
  LET g == generateSocialMediaPost(PRESET_TEXT_STYLES, content, platform, rnd, 5 * (j - 1))
  IN  Observed(g.post.textOverlays, g.presets)

\* C3: generateMultiPlatformPosts carries no state from one platform to the
\* next: called on fresh module state, the overlays (text, placement, style)
\* of the post for platforms[j] equal those of generateSocialMediaPost for
\* platforms[j] called alone on fresh module state with the same random
\* choices, whatever platforms precede it.
C3_NoCrossPlatformState ==
  (op = "generateMultiPlatformPosts" /\ calls = 1 /\ ~ret.threw) =>
    \A j \in 1..Len(ret.posts) :
      Observed(ret.posts[j].textOverlays, presets)
        = Standalone(args.content, args.platforms[j], args.rnd, j)

\* C4 as claimed: generateSocialMediaOverlays returns exactly two overlays for
\* every media kind and every one of the five platforms.
C4_TwoOverlaysAlways ==
  op = "generateSocialMediaOverlays" => Len(ret) = 2

CtaText(platform) ==
  IF platform = "tiktok" THEN <<Word("FOLLOW FOR MORE", 21, FALSE, {})>>
  ELSE <<Word("Double tap", 13, TRUE, {"tap"})>>

\* C4 amended: generateSocialMediaOverlays returns a title overlay followed by
\* the platform's call-to-action for video on tiktok and instagram, the title
\* overlay alone for video on youtube, twitter and facebook, a callout
\* (Impact, stroke 3) followed by the viral badge for meme, and a brand title
\* followed by the share call-to-action for graphic, on every platform.
C4_OverlaysPerKind ==
  op = "generateSocialMediaOverlays" =>
    CASE args.content.type = "video" ->
           /\ ret[1].ref = Some("title")
           /\ ret[1].text \in {generateVideoTitle(args.content.category, d) : d \in 0..4}
           /\ IF args.platform \in {"tiktok", "instagram"}
                THEN Len(ret) = 2 /\ ret[2].text = CtaText(args.platform)
                ELSE Len(ret) = 1
      [] args.content.type = "meme" ->
           /\ Len(ret) = 2
           /\ ret[1].text \in {generateMemeText(args.content.category, d) : d \in 0..4}
           /\ ret[1].style.fontFamily = "Impact"
           /\ ret[1].style.stroke = Stroke("#000000", 3)
           /\ ret[2].text = <<Word("VIRAL", 11, FALSE, {})>>
           /\ ret[2].placement.position = Some("top-right")
      [] args.content.type = "graphic" ->
           /\ Len(ret) = 2
           /\ ret[1].ref = Some("title")
           /\ ret[1].text \in {generateBrandText(args.content.category, d) : d \in 0..4}
           /\ ret[2].text = <<Word("SHARE THIS!", 14, TRUE, {"!"})>>
           /\ ret[2].placement.position = Some("bottom-center")

\* a video on a platform without a call-to-action: the title overlay alone
C4_Witness ==
  /\ op = "generateSocialMediaOverlays"
  /\ args.content.type = "video"
  /\ args.platform = "youtube"
  /\ Len(ret) = 1
  /\ ret[1].ref = Some("title")

\* C6: post generation cannot fail on well-formed input: when no platforms
\* list is supplied, the process-content handler's call
\* generateMultiPlatformPosts(content, analyzeContent(content).bestPlatforms)
\* completes without throwing and returns one post per best platform.
C6_DefaultPlatformsNeverThrow ==
  (op = "processContent" /\ ~IsSome(args.platforms)) =>
    /\ ret.status = 200
    /\ Len(ret.posts) = Len(analyzeContent(args.content).bestPlatforms)
    /\ \A j \in 1..Len(ret.posts) :
         ret.posts[j].platform = analyzeContent(args.content).bestPlatforms[j]

(***************************************************************************)
(* Properties of the placement generator (SpecPlacement).                  *)
(***************************************************************************)

\* C11: whenever importance is 'critical', generateOptimalPlacement returns
\* position 'center', for every content type, aspect ratio (ultrawide
\* included) and media type, with or without a timing window.
C11_CriticalIsCenter ==
  (op = "generateOptimalPlacement" /\ args.contentAnalysis.importance = "critical") =>
    ret.position = Some("center")

\* a critical title on an ultrawide video with a timing window
C11_Witness ==
  /\ op = "generateOptimalPlacement"
  /\ args.contentAnalysis.importance = "critical"
  /\ args.contentAnalysis.contentType = "title"
  /\ args.mediaContext.aspectRatio = "ultrawide"
  /\ IsSome(ret.startTime)
  /\ ret.position = Some("center")

\* the base position the claim gives a content type
ClaimedBase ==
  [contentType \in PlacementContentTypes |->
     [aspectRatio \in AspectRatios |->
        IF contentType = "title" THEN "top-center"
        ELSE IF contentType = "subtitle"
          THEN (IF aspectRatio = "portrait" THEN "center" ELSE "top-center")
        ELSE IF contentType \in {"watermark", "credit"} THEN "bottom-right"
        ELSE IF contentType \in {"callout", "quote", "statistic"} THEN "center"
        ELSE IF contentType = "disclaimer" THEN "bottom-left"
        ELSE "bottom-center"]]

ClaimedPosition(contentType, importance, aspectRatio) ==
  LET afterImportance == IF importance = "critical" THEN "center"
                         ELSE ClaimedBase[contentType][aspectRatio]
  IN  IF afterImportance = "top-center" /\ aspectRatio = "ultrawide"
        THEN "top-left" ELSE afterImportance

\* C12: generateOptimalPlacement's position is the base position of the
\* content type (bottom-center for a missing one), then center if importance
\* is critical, then top-left if the result is top-center and the aspect
\* ratio is ultrawide; it is always one of the nine preset names.
C12_PositionRule ==
  op = "generateOptimalPlacement" =>
    /\ ret.position = Some(ClaimedPosition(args.contentAnalysis.contentType,
                                           args.contentAnalysis.importance,
                                           args.mediaContext.aspectRatio))
    /\ Get(ret.position) \in TextPositions

\* a subtitle on portrait media is centred; a missing content type on
\* ultrawide media stays bottom-center
C12_Witness ==
  /\ op = "generateOptimalPlacement"
  /\ args.contentAnalysis.contentType = "subtitle"
  /\ args.contentAnalysis.importance = "medium"
  /\ args.mediaContext.aspectRatio = "portrait"
  /\ ret.position = Some("center")

(***************************************************************************)
(* Properties of the validators (SpecValidate).                            *)
(***************************************************************************)

\* the rules the claim lists for a placement, as the set of those violated
ViolatedPlacementRules(q) ==
  {r \in 1..6 :
     CASE r = 1 -> q.position # None /\ q.gravity # None
       [] r = 2 -> q.x # None /\ Get(q.x) \notin 0..100
       [] r = 3 -> q.y # None /\ Get(q.y) \notin 0..100
       [] r = 4 -> q.startTime # None /\ Get(q.startTime) < 0
       [] r = 5 -> q.endTime # None /\ Get(q.endTime) < 0
       [] r = 6 -> q.startTime # None /\ q.endTime # None
                   /\ ~(Get(q.startTime) < Get(q.endTime))}

C14_PositionWithCoordinatesRejected ==
  (/\ op = "validateTextPlacement"
   /\ IsSome(args.placement.position)
   /\ (IsSome(args.placement.x) \/ IsSome(args.placement.y))) =>
    (~ret.isValid /\ ret.errors # <<>>)

StyleFieldOutside(field, lo, hi) ==
  field # None /\ ~(RatLe(RatInt(lo), Get(field)) /\ RatLe(Get(field), RatInt(hi)))

\* C15: validateTextStyle reports isValid = false exactly when fontSize is
\* set and outside [8,200], or opacity is set and outside [0,1], or
\* stroke.width is set and outside [0,20], or shadow.blur is set and outside
\* [0,50]; the boundary values are accepted and a style with none of these
\* fields is valid.
C15_StyleRules ==
  op = "validateTextStyle" =>
    ret.isValid =
      ~(\/ StyleFieldOutside(args.style.fontSize, 8, 200)
        \/ StyleFieldOutside(args.style.opacity, 0, 1)
        \/ (args.style.stroke # None
              /\ StyleFieldOutside(Get(args.style.stroke).width, 0, 20))
        \/ (args.style.shadow # None
              /\ StyleFieldOutside(Get(args.style.shadow).blur, 0, 50)))

\* every checked field at a boundary value
C15_Witness ==
  /\ op = "validateTextStyle"
  /\ args.style.fontSize = Some(RatInt(200))
  /\ args.style.opacity = Some(RatInt(1))
  /\ args.style.stroke # None /\ Get(args.style.stroke).width = Some(RatInt(20))
  /\ args.style.shadow # None /\ Get(args.style.shadow).blur = Some(RatInt(0))
  /\ ret.isValid

(***************************************************************************)
(* Properties of mergeTextStyle (SpecMerge).                               *)
(***************************************************************************)

StyleKeys == {"color", "fontSize", "stroke", "shadow", "animation"}

SubKeys == {"color", "width", "blur", "type", "duration", "delay"}

\* the value read at o.k of a sub-object o that may be undefined
ReadSub(o, k) == IF IsSome(o) THEN Read(Get(o), k) ELSE None

\* partial sets sub-field k of its sub-object f
SetsSub(partial, f, k) ==
  f \in DOMAIN partial /\ IsSome(partial[f]) /\ k \in DOMAIN Get(partial[f])

\* C16: mergeTextStyle(partial, base) takes every top-level field from
\* partial when partial sets it and from base otherwise, except that stroke,
\* shadow and animation are merged key by key, each sub-field from partial
\* when partial sets it and from base otherwise; merging the same partial
\* again over the result changes nothing.
C16_MergeKeyByKey ==
  op = "mergeTextStyle" =>
    /\ \A f \in StyleKeys \ SubObjects :
         Read(ret, f) = IF f \in DOMAIN args.style THEN args.style[f]
                        ELSE Read(args.defaults, f)
    /\ \A f \in SubObjects : \A k \in SubKeys :
         ReadSub(Read(ret, f), k) =
           IF SetsSub(args.style, f, k) THEN Get(args.style[f])[k]
           ELSE ReadSub(Read(args.defaults, f), k)
    /\ mergeTextStyle(args.style, ret) = ret

\* a partial stroke that sets only the width keeps the base's colour
C16_Witness ==
  /\ op = "mergeTextStyle"
  /\ "stroke" \in DOMAIN args.style
  /\ IsSome(args.style.stroke)
  /\ DOMAIN Get(args.style.stroke) = {"width"}
  /\ IsSome(Read(args.defaults, "stroke"))
  /\ Get(ret.stroke).color = Some("#000000")
  /\ Get(ret.stroke).width = Some(5)

(***************************************************************************)
(* Properties of generateMultipleTextOverlays (SpecMultiple).              *)
(***************************************************************************)

\* the placement the single-overlay generator gives a segment
SinglePlacement(segment, mediaContext) ==
  generateTextOverlay(PRESET_TEXT_STYLES, segment.text, mediaContext,
                      SegmentOptions(segment)).overlay.placement

\* placement with dx and dy added to its offset
Staggered(placement, dx, dy) ==
  [placement EXCEPT !.offset =
     Offset(Some(OffsetPart(placement, "x") + dx), Some(OffsetPart(placement, "y") + dy))]

OnePerSegment ==
  /\ Len(ret) = Len(args.textSegments)
  /\ \A n \in 1..Len(ret) : ret[n].text = args.textSegments[n].text

\* C17 as claimed: one overlay per segment in input order; with two or more
\* segments the first segment's placement is exactly the single-overlay
\* generator's and each later segment at 0-based index i has ((i mod 3) - 1)*20
\* added to its offset x and floor(i/3)*30 to its offset y; with a single
\* segment no offset is added.
C17_FirstSegmentUntouched ==
  op = "generateMultipleTextOverlays" =>
    /\ OnePerSegment
    /\ \A n \in 1..Len(ret) :
         LET single == SinglePlacement(args.textSegments[n], args.mediaContext)
             i == n - 1
         IN  ret[n].placement =
               IF Len(ret) >= 2 /\ i >= 1
                 THEN Staggered(single, ((i % 3) - 1) * 20, (i \div 3) * 30)
                 ELSE single

\* C17 amended: one overlay per segment in input order; with two or more
\* segments every segment at 0-based index i, the first included (x - 20,
\* y + 0), has ((i mod 3) - 1)*20 added to its offset x and floor(i/3)*30 to
\* its offset y; with a single segment the placement is the single-overlay
\* generator's.
C17_EverySegmentStaggered ==
  op = "generateMultipleTextOverlays" =>
    /\ OnePerSegment
    /\ \A n \in 1..Len(ret) :
         LET single == SinglePlacement(args.textSegments[n], args.mediaContext)
             i == n - 1
         IN  ret[n].placement =
               IF Len(ret) >= 2
                 THEN Staggered(single, ((i % 3) - 1) * 20, (i \div 3) * 30)
                 ELSE single

\* four segments: the first is moved 20 to the left, the fourth 20 to the
\* left and 30 down
C17_Witness ==
  /\ op = "generateMultipleTextOverlays"
  /\ Len(ret) = 4
  /\ ret[1].placement.offset = Offset(Some(-20), Some(0))
  /\ ret[4].placement.offset = Offset(Some(-20), Some(30))

(***************************************************************************)
(* Properties of the returned styles (SpecMultiple).                       *)
(***************************************************************************)
\* C26: a style returned by generateTextOverlay is not changed by later
\* calls (the next segment of generateMultipleTextOverlays), and two overlays
\* of one result never share a style whose fields change together: when the
\* call returns, the style object of every overlay still holds what that
\* segment's generateTextOverlay returned, and no two overlays hold the same
\* object.
C26_ReturnedStylesIndependent ==
  op = "generateMultipleTextOverlays" =>
    /\ \A n \in 1..Len(ret) : presets[ret[n].ref] = ret[n].style
    /\ \A m, n \in 1..Len(ret) : m # n => ret[m].ref # ret[n].ref

\* what generateTextOverlay(segment.text, mediaContext) returns on the
\* untouched preset table when no custom options are passed
Unassisted(segment, mediaContext) ==
  generateTextOverlay(PRESET_TEXT_STYLES, segment.text, mediaContext, NoOptions).overlay

\* C28: in generateMultipleTextOverlays a segment that omits type and
\* importance is classified by the rule-based classifier: its
\* analysis.contentType and analysis.importance are those of
\* analyzeTextContent(segment.text), one of the ten content types and four
\* importance levels, and its position and style are those that
\* generateTextOverlay(segment.text, mediaContext) gives with no custom
\* options (the style compared for the first segment of a first call, the
\* position before staggering).
C28_OmittedFieldsClassified ==
  op = "generateMultipleTextOverlays" =>
    \A n \in 1..Len(ret) :
      (args.textSegments[n].type = None /\ args.textSegments[n].importance = None) =>
        LET text == args.textSegments[n].text
            plain == Unassisted(args.textSegments[n], args.mediaContext)
        IN  /\ ret[n].analysis.contentType = analyzeTextContent(text).contentType
            /\ ret[n].analysis.importance = analyzeTextContent(text).importance
            /\ ret[n].analysis.contentType \in ContentTypes
            /\ ret[n].analysis.importance \in Importances
            /\ ret[n].placement.position = plain.placement.position
            /\ (calls = 1 /\ n = 1) => ret[n].style = plain.style

\* C29: in the result of generateMultipleTextOverlays with two or more
\* segments no two overlays have both the same preset position and the same
\* (x, y) offset, for any number of segments and any mix of content types.
C29_NoTwoOverlaysCoincide ==
  (op = "generateMultipleTextOverlays" /\ Len(ret) >= 2) =>
    \A m, n \in 1..Len(ret) :
      m # n =>
        \/ ret[m].placement.position # ret[n].placement.position
        \/ OffsetPart(ret[m].placement, "x") # OffsetPart(ret[n].placement, "x")
        \/ OffsetPart(ret[m].placement, "y") # OffsetPart(ret[n].placement, "y")

\* C29 witness: seven segments; the second and the fifth have the same
\* position and the same x offset and differ by the vertical step
C29_Witness ==
  /\ op = "generateMultipleTextOverlays"
  /\ Len(ret) = 7
  /\ ret[2].placement.position = ret[5].placement.position
  /\ OffsetPart(ret[2].placement, "x") = OffsetPart(ret[5].placement, "x")
  /\ OffsetPart(ret[2].placement, "y") = 0
  /\ OffsetPart(ret[5].placement, "y") = 30

(***************************************************************************)
(* Properties of the analyzer's hashtags (SpecAnalyze).                    *)
(***************************************************************************)

BaseHashtags ==
  [video |-> <<"viral", "trending", "fyp", "foryou">>,
   meme |-> <<"meme", "funny", "viral", "trending", "fyp">>,
   graphic |-> <<"design", "graphic", "creative", "art">>]

DefaultHashtags ==
  [video |-> <<"viral", "trending">>,
   meme |-> <<"meme", "funny">>,
   graphic |-> <<"design", "creative">>]

\* kind, category and first tag of every entry of the three category tables;
\* video entries hold five tags, meme and graphic entries four
CategoryEntries ==
  {<<"video", "subway-surfers", "subwaysurfers", 5>>, <<"video", "minecraft", "minecraft", 5>>,
   <<"video", "brainrot", "brainrot", 5>>, <<"video", "gaming", "gaming", 5>>,
   <<"video", "entertainment", "entertainment", 5>>,
   <<"meme", "dank-memes", "dankmemes", 4>>, <<"meme", "viral-meme", "viral", 4>>,
   <<"meme", "classic-meme", "classic", 4>>,
   <<"graphic", "brand-graphic", "brand", 4>>, <<"graphic", "color-graphic", "color", 4>>,
   <<"graphic", "minimal-graphic", "minimal", 4>>}

C19_PostRecord ==
  (op = "generateSocialMediaPost" /\ ~ret.threw) =>
    LET tags == analyzeContent(args.content).suggestedHashtags
        lastBlock == ret.post.caption[Len(ret.post.caption)]
    IN  /\ ret.post.status = "draft"
        /\ ret.post.contentId = args.content.id
        /\ ret.post.platform = args.platform
        /\ ret.post.hashtags = tags
        /\ Len(lastBlock) = Len(tags)
        /\ \A i \in 1..Len(tags) : lastBlock[i] = <<"#", tags[i]>>

\* a post for a brainrot video on youtube with its nine hashtags
C19_Witness ==
  /\ op = "generateSocialMediaPost"
  /\ ~ret.threw
  /\ args.content.type = "video"
  /\ args.platform = "youtube"
  /\ Len(ret.post.hashtags) = 9
  /\ ret.post.caption[3][1] = <<"#", "viral">>
  /\ ret.post.status = "draft"

\* C20: batchGeneratePosts(contents, platforms) returns exactly
\* |contents| * |platforms| posts in content-major, platform-minor order: the
\* post at index i*|platforms| + j has contentId contents[i].id and platform
\* platforms[j]; with empty contents or empty platforms the result is empty.
\* (A call without platforms is taken with its default list.)
C20_ContentMajorOrder ==
  op = "batchGeneratePosts" =>
    LET contents == args.contents
        platforms == IF IsSome(args.platforms) THEN Get(args.platforms)
                     ELSE <<"tiktok", "instagram", "youtube">>
    IN  /\ ~ret.threw
        /\ Len(ret.posts) = Len(contents) * Len(platforms)
        /\ \A i \in 0..(Len(contents) - 1) : \A j \in 0..(Len(platforms) - 1) :
             /\ ret.posts[i * Len(platforms) + j + 1].contentId = contents[i + 1].id
             /\ ret.posts[i * Len(platforms) + j + 1].platform = platforms[j + 1]
        /\ (contents = <<>> \/ platforms = <<>>) => ret.posts = <<>>

\* three content items on two platforms: six posts, the third being the
\* second item's first
C20_Witness ==
  /\ op = "batchGeneratePosts"
  /\ Len(args.contents) = 3
  /\ args.platforms = Some(<<"instagram", "tiktok">>)
  /\ Len(ret.posts) = 6
  /\ ret.posts[3].contentId = "meme_1"
  /\ ret.posts[3].platform = "instagram"

(***************************************************************************)
(* Properties of the colour and font adjustments (SpecColour).             *)
(***************************************************************************)
\* the analysis and the brand guidelines the last call worked with
UsedAnalysis ==
  IF op = "generateTextOverlay" THEN ret.analysis ELSE args.contentAnalysis

UsedBrand ==
  IF op = "generateTextOverlay" /\ IsSome(BrandOf(args.customOptions))
    THEN Get(BrandOf(args.customOptions))
    ELSE [primaryColor |-> None, fontFamily |-> None]

\* C21: the final text colour follows a fixed precedence: a brand
\* primaryColor always wins; otherwise audience youth gives #4ecdc4;
\* otherwise tone playful gives #ff6b6b; otherwise importance critical gives
\* #ff0000, also on a dark or bright background; the brightness (dark ->
\* white, bright -> black) decides only when none of these apply.  A brand
\* fontFamily always overrides the font chosen for tone or audience.
C21_ColourPrecedence ==
  op \in {"generateOptimalStyle", "generateTextOverlay"} =>
    /\ IF IsSome(UsedBrand.primaryColor)
         THEN ret.style.color = Get(UsedBrand.primaryColor)
       ELSE IF UsedAnalysis.audience = "youth" THEN ret.style.color = "#4ecdc4"
       ELSE IF UsedAnalysis.tone = "playful" THEN ret.style.color = "#ff6b6b"
       ELSE IF UsedAnalysis.importance = "critical" THEN ret.style.color = "#ff0000"
       ELSE IF args.mediaContext.brightness = "dark" THEN ret.style.color = "#ffffff"
       ELSE IF args.mediaContext.brightness = "bright" THEN ret.style.color = "#000000"
       ELSE TRUE
    /\ IsSome(UsedBrand.fontFamily) =>
         ret.style.fontFamily = Get(UsedBrand.fontFamily)

\* C21 witness: a playful youth profile with critical importance on a dark
\* background, styled after an earlier call changed the preset table.
C21_Witness ==
  /\ op = "generateOptimalStyle"
  /\ calls = MaxCalls
  /\ presets # [PRESET_TEXT_STYLES EXCEPT !["title"] = ret.style]
  /\ args.contentAnalysis.audience = "youth"
  /\ args.contentAnalysis.tone = "playful"
  /\ args.contentAnalysis.importance = "critical"
  /\ args.mediaContext.brightness = "dark"
  /\ ret.style.color = "#4ecdc4"

(***************************************************************************)
(* The timing window of generateOptimalPlacement (SpecPlacement).          *)
(***************************************************************************)
Min(a, b) == IF a < b THEN a ELSE b

TimedExactlyWhen(timed) ==
  op = "generateOptimalPlacement" =>
    IF timed
      THEN /\ ret.startTime = Some(0)
           /\ ret.endTime = Some(Min(Get(args.mediaContext.duration), 5))
      ELSE /\ ret.startTime = None
           /\ ret.endTime = None

\* C22 as stated: generateOptimalPlacement attaches a timing window exactly
\* when the media kind is video and a duration is known (startTime 0, endTime
\* min(duration, 5)); every other placement has neither startTime nor endTime.
C22_WindowWhenDurationKnown ==
  TimedExactlyWhen(/\ op = "generateOptimalPlacement"
                   /\ args.mediaContext.type = "video"
                   /\ IsSome(args.mediaContext.duration))

\* C22 amended: the timing window is attached exactly when the media kind is
\* video and the duration is present and not 0 (startTime 0, endTime
\* min(duration, 5)); a video of duration 0, a video without duration and
\* every non-video media kind get neither startTime nor endTime.
C22_WindowWhenDurationNonZero ==
  TimedExactlyWhen(/\ op = "generateOptimalPlacement"
                   /\ args.mediaContext.type = "video"
                   /\ IsSome(args.mediaContext.duration)
                   /\ Get(args.mediaContext.duration) # 0)

\* C22 witness: a video of duration 0 is placed without a timing window
C22_Witness ==
  /\ op = "generateOptimalPlacement"
  /\ args.mediaContext.type = "video"
  /\ args.mediaContext.duration = Some(0)
  /\ ret.startTime = None
  /\ ret.endTime = None

(***************************************************************************)
(* The non-generated overlays of generateSocialMediaOverlays (SpecPosts).  *)
(***************************************************************************)
\* the call-to-action or badge that the first call of a process returns for
\* this content item and platform
FirstCallFixedOverlay(content, platform) ==
  generateSocialMediaOverlays(PRESET_TEXT_STYLES, content, platform, 0).overlays[2]

\* C23: the non-generated overlays of generateSocialMediaOverlays (the tiktok
\* and instagram video call-to-action, the meme 'VIRAL' badge, the graphic
\* 'SHARE THIS' call-to-action) have the same text, placement and style on
\* every call, whatever was processed earlier in the same process.
C23_FixedOverlaysFixed ==
  (op = "generateSocialMediaOverlays" /\ Len(ret) = 2) =>
    ret[2] = FirstCallFixedOverlay(args.content, args.platform)

(***************************************************************************)
(* Properties of the generate-posts handler (SpecHandler).                 *)
(***************************************************************************)
\* C25: the generate-posts handler supports batch generation: a request with
\* batch = true whose content is a non-empty array of well-formed content
\* items is answered with success, the posts of batchGeneratePosts over those
\* items (for tiktok, instagram and youtube when no platforms are given) and
\* count equal to the number of posts; it is not rejected with 400.
C25_BatchSupported ==
  (/\ op = "generatePosts"
   /\ args.body.batch
   /\ args.body.content.kind = "array"
   /\ args.body.content.items # <<>>) =>
    LET items == args.body.content.items
        platforms == IF IsSome(args.body.platforms) THEN Get(args.body.platforms)
                     ELSE <<"tiktok", "instagram", "youtube">>
    IN  /\ ret.status = 200
        /\ ret.success
        /\ ret.count = Len(ret.posts)
        /\ Len(ret.posts) = Len(items) * Len(platforms)
        /\ \A i \in 0..(Len(items) - 1) : \A j \in 0..(Len(platforms) - 1) :
             /\ ret.posts[i * Len(platforms) + j + 1].contentId = items[i + 1].id
             /\ ret.posts[i * Len(platforms) + j + 1].platform = platforms[j + 1]

====
